---- MODULE Spec2Model ----
(***************************************************************************)
(* Telemetry ingestion pipeline (database-supervisor, event-router).       *)
(*                                                                         *)
(* Option<T> is modelled as a set with at most one element: None is {},   *)
(* Some(x) is {x}.  f64 readings and bounds are modelled by integers; the  *)
(* evaluator only compares them with < and >.                              *)
(***************************************************************************)
EXTENDS Integers, Sequences, FiniteSets, TLC

VARIABLES
    \* relational store (one table per variable, a table is a set of rows)
    telemetry_ingest_ledger,
    plant,
    plant_current_state,
    device,
    ticker_event,
    \* time-series sink (list of written points) and status bus (published messages)
    sink_points,
    bus,
    \* SupervisorServiceImpl.amqp_chan: TRUE when a channel is configured
    amqp_chan,
    \* one record per ingest_telemetry handler task
    handlers,
    \* number of process_envelope calls started, number of injected faults
    ncalls,
    nfaults,
    \* history: SQL errors so far, every change of a stored severity, every
    \* StatusChange returned by process_envelope
    sql_errors,
    severity_log,
    emitted_changes,
    \* threshold evaluator harness: the threshold under test and the evaluations made
    ev_threshold,
    ev_results,
    \* aggregation harness: the severities under test and the aggregations made
    agg_input,
    agg_results,
    \* event-router: the envelope queue between receiver and batcher (mpsc channel)
    rx_queue,
    \* what the receive loop has done so far, and with the last datagram
    receiver,
    \* batch_sender: its position, batch_size, the batch being built, the request in
    \* flight, whether the deadline of the cycle has passed
    batcher,
    \* history: the batches handed to the forwarding RPC
    forwarded,
    \* line protocol: a point, and the line each of the two serializers made of it
    lp_point,
    lp_lines,
    \* coordinator: the POST /data request being handled, its two writes, the calls
    \* made to the two backends, and the response
    coord,
    \* FakeTelemetrySink: the buffer behind the mutex, the mutex, the callers, and the
    \* history of the calls that have returned
    fake

vars == <<telemetry_ingest_ledger, plant, plant_current_state, device, ticker_event,
          sink_points, bus, amqp_chan, handlers, ncalls, nfaults,
          sql_errors, severity_log, emitted_changes, ev_threshold, ev_results,
          agg_input, agg_results, rx_queue, receiver, batcher, forwarded,
          lp_point, lp_lines, coord, fake>>

ingest_vars == <<telemetry_ingest_ledger, plant, plant_current_state, device,
                 ticker_event, sink_points, bus, amqp_chan, handlers, ncalls,
                 nfaults, sql_errors, severity_log, emitted_changes>>

eval_vars == <<ev_threshold, ev_results>>

agg_vars == <<agg_input, agg_results>>

router_vars == <<rx_queue, receiver, batcher, forwarded>>

lp_vars == <<lp_point, lp_lines>>

coord_vars == <<coord>>

fake_vars == <<fake>>

\* the state of everything that is not the ingest handler
other_vars == <<eval_vars, agg_vars, router_vars, lp_vars, coord_vars, fake_vars>>

None == {}
Some(x) == {x}
IsSome(o) == o # {}
Unwrap(o) == CHOOSE x \in o : TRUE

(***************************************************************************)
(* threshold.rs                                                            *)
(***************************************************************************)

\* enum Severity { Normal, Warn, Critical } with the derived Ord
Normal == 0
Warn == 1
Critical == 2
Severity == {Normal, Warn, Critical}

as_str(s) ==
    CASE s = Normal -> "NORMAL"
      [] s = Warn -> "WARN"
      [] s = Critical -> "CRITICAL"

from_str(str) ==
    CASE str = "WARN" -> Warn
      [] str = "CRITICAL" -> Critical
      [] OTHER -> Normal

\* a faulty variant of evaluate_metric: non-strict comparisons
evaluate_metric_nonstrict(value, threshold) ==
    IF \E min \in threshold.crit_min : value <= min THEN Critical
    ELSE IF \E max \in threshold.crit_max : value >= max THEN Critical
    ELSE IF \E min \in threshold.warn_min : value <= min THEN Warn
    ELSE IF \E max \in threshold.warn_max : value >= max THEN Warn
    ELSE Normal

\* a faulty variant of evaluate_metric: the crit_min comparison points the wrong way
evaluate_metric_flipped_crit_min(value, threshold) ==
    IF \E min \in threshold.crit_min : value > min THEN Critical
    ELSE IF \E max \in threshold.crit_max : value > max THEN Critical
    ELSE IF \E min \in threshold.warn_min : value < min THEN Warn
    ELSE IF \E max \in threshold.warn_max : value > max THEN Warn
    ELSE Normal

\* a faulty variant of evaluate_metric: the warn band is tested before the critical band
evaluate_metric_warn_first(value, threshold) ==
    IF \E min \in threshold.warn_min : value < min THEN Warn
    ELSE IF \E max \in threshold.warn_max : value > max THEN Warn
    ELSE IF \E min \in threshold.crit_min : value < min THEN Critical
    ELSE IF \E max \in threshold.crit_max : value > max THEN Critical
    ELSE Normal

evaluate_metric(value, threshold) ==
    IF \E min \in threshold.crit_min : value < min THEN Critical
    ELSE IF \E max \in threshold.crit_max : value > max THEN Critical
    ELSE IF \E min \in threshold.warn_min : value < min THEN Warn
    ELSE IF \E max \in threshold.warn_max : value > max THEN Warn
    ELSE Normal

\* a faulty variant of aggregate_severity: the last severity of the collection wins
aggregate_severity_last(severities) ==
    IF Len(severities) = 0 THEN Normal ELSE severities[Len(severities)]

\* the loop of aggregate_severity over a sequence of severities
RECURSIVE aggregate_from(_, _, _)
aggregate_from(severities, i, overall) ==
    IF i > Len(severities) THEN overall
    ELSE aggregate_from(severities, i + 1,
                        IF severities[i] > overall THEN severities[i] ELSE overall)

aggregate_severity(severities) == aggregate_from(severities, 1, Normal)

(***************************************************************************)
(* Bounds of the model                                                     *)
(***************************************************************************)

\* the largest threshold bound given to the evaluator harness
MaxBound == 3
\* process_envelope calls made in one behaviour
MaxCalls == 2
\* envelopes of one IngestTelemetryRequest
MaxBatch == 2
\* failures injected in one behaviour (SQL errors, sink errors, publish errors)
MaxFaults == 1
\* severities in a collection drawn for aggregate_severity
MaxSeverities == 3
\* aggregations remembered in one behaviour
MaxAggregations == 2
\* datagrams received in one behaviour of the event-router
MaxDatagrams == 3
\* structured records in one POST /data request
MaxRecords == 2
\* datagrams offered to a full queue, datagrams rejected by the decoder
MaxOverflow == 2
MaxRejected == 2
\* the largest ROUTER_BATCH_SIZE
MaxBatchSize == 2
\* forwarding RPCs started in one behaviour in which the queue fills up
MaxRpcs == 1
\* calls made to the memory sink in one behaviour, points of one write_points call
MaxSinkCalls == 4
MaxPoints == 2

(***************************************************************************)
(* Inputs and the initial content of the relational store                  *)
(***************************************************************************)

Handlers == {1, 2}

Metrics ==
    <<"soil_moisture", "ambient_light_lux", "ambient_humidity_rh", "ambient_temp_c">>
MetricNames == {Metrics[i] : i \in 1..Len(Metrics)}

IngestIds == {1, 2}

\* strings that Uuid::parse_str accepts ("R" is the id of no plant)
Uuids == {"P", "Q", "R"}
PlantIdStrings == Uuids \cup {"not-a-uuid"}
DeviceUids == {"d1", "d0"}

\* a faulty variant of parse_str: every string is taken for a UUID
parse_str_any(s) == Some(s)

parse_str(s) == IF s \in Uuids THEN Some(s) ELSE None

\* plant P is active, plant Q exists but is inactive
InitPlant ==
    { [id |-> "P", plant_type_id |-> "T", is_active |-> TRUE],
      [id |-> "Q", plant_type_id |-> "T", is_active |-> FALSE] }

\* rows of plant_type_metric_threshold, in the order fetch_all returns them
InitThresholds ==
    << [plant_type_id |-> "T", metric |-> "soil_moisture",
        warn_min |-> Some(20), warn_max |-> Some(80),
        crit_min |-> Some(10), crit_max |-> Some(90)],
       [plant_type_id |-> "T", metric |-> "ambient_temp_c",
        warn_min |-> None, warn_max |-> Some(30),
        crit_min |-> None, crit_max |-> None],
       [plant_type_id |-> "U", metric |-> "soil_moisture",
        warn_min |-> Some(20), warn_max |-> Some(80),
        crit_min |-> Some(10), crit_max |-> Some(90)] >>

\* the plant of the seed scenarios: its type has thresholds for soil_moisture only
SeedPlant == { [id |-> "P", plant_type_id |-> "U", is_active |-> TRUE] }

InitDevice == { [device_uid |-> "d1", last_seen_at |-> 0, last_ingest_id |-> None] }

\* the readings of an envelope: soil_moisture, ambient_light_lux, ambient_humidity_rh,
\* ambient_temp_c
Readings(sm, al, ah, at) ==
    [soil_moisture |-> sm, ambient_light_lux |-> al,
     ambient_humidity_rh |-> ah, ambient_temp_c |-> at]

SoilNormal == Readings(Some(50), None, None, None)
SoilWarn == Readings(Some(15), None, None, None)
SoilCritical == Readings(Some(5), None, None, None)
TempOnly == Readings(None, None, None, Some(22))
AllNull == Readings(None, None, None, None)
AllPresent == Readings(Some(50), Some(300), Some(40), Some(35))

ReadingChoices == {SoilWarn, SoilCritical, TempOnly, AllNull, AllPresent}

TelemetryEnvelope(i, d, p, r) ==
    [ingest_id |-> i, device_uid |-> d, plant_id |-> p, timestamp_ns |-> 1000 + i,
     soil_moisture |-> r.soil_moisture, ambient_light_lux |-> r.ambient_light_lux,
     ambient_humidity_rh |-> r.ambient_humidity_rh, ambient_temp_c |-> r.ambient_temp_c]

\* the envelopes offered to handlers that run one after another
SeqEnvelopes ==
    { TelemetryEnvelope(i, "d1", "P", r) : i \in IngestIds, r \in ReadingChoices }
      \cup { TelemetryEnvelope(1, "d1", p, SoilWarn) : p \in {"Q", "not-a-uuid"} }
      \cup { TelemetryEnvelope(1, "d0", "P", SoilWarn),
              TelemetryEnvelope(2, "d1", "R", SoilWarn) }

\* the envelopes offered to handlers that run concurrently
ConcEnvelopes ==
    { TelemetryEnvelope(1, "d1", "P", SoilWarn),
      TelemetryEnvelope(2, "d1", "P", SoilCritical),
      TelemetryEnvelope(2, "d1", "P", TempOnly),
      TelemetryEnvelope(1, "d1", "Q", SoilWarn),
      TelemetryEnvelope(1, "d1", "not-a-uuid", SoilWarn) }

Envelopes == SeqEnvelopes \cup ConcEnvelopes

\* the envelopes of the seed scenarios S1 to S5, in order: soil_moisture 50, 15, the
\* same envelope once more, ambient_temp_c 22 without soil_moisture, soil_moisture 5
SeedScenarios ==
    << TelemetryEnvelope(1, "d1", "P", SoilNormal),
       TelemetryEnvelope(2, "d1", "P", SoilWarn),
       TelemetryEnvelope(2, "d1", "P", SoilWarn),
       TelemetryEnvelope(3, "d1", "P", TempOnly),
       TelemetryEnvelope(4, "d1", "P", SoilCritical) >>

NoEnvelope ==
    [ingest_id |-> 0, device_uid |-> "", plant_id |-> "", timestamp_ns |-> 0,
     soil_moisture |-> None, ambient_light_lux |-> None,
     ambient_humidity_rh |-> None, ambient_temp_c |-> None]

\* NOW() of the relational store: time advances when a call starts
NOW == ncalls

(***************************************************************************)
(* ingest.rs: process_envelope, one action per await point                 *)
(***************************************************************************)

IdleHandler ==
    [pc |-> "idle", env |-> NoEnvelope, plant_type_id |-> "",
     metric_severities |-> <<>>, overall_severity |-> Normal,
     prev_severity |-> Normal, status_change |-> None,
     ret |-> "", ret_change |-> None,
     \* what the call observed and did, kept for the properties
     seen_before |-> FALSE, existing |-> None, read_severity |-> None,
     sev_before |-> None, upserted |-> FALSE, failed |-> FALSE,
     device_updated |-> FALSE, ticker_inserted |-> FALSE, stopped_at |-> "",
     \* the write_points calls this process_envelope call has made
     sink_calls |-> 0,
     \* the calls of this handler so far that returned Ok, and those that failed
     \* after their ticker insert
     ok_calls |-> 0, late_failures |-> 0,
     \* the envelope of the last call if it failed or was cancelled, with whether it
     \* had written the state row; whether this call is on that envelope again, and
     \* whether the state row it finds was written by the stopped call
     interrupted |-> None, replay |-> FALSE, rewrite |-> FALSE,
     \* whether the stopped call on this envelope had changed the stored severity
     changed_before |-> FALSE,
     \* ingest_telemetry: the envelopes taken so far and the response being built
     req |-> <<>>, results |-> <<>>, status_changes |-> <<>>,
     \* the StatusChanges built by the calls of this request, kept for the properties
     detected |-> <<>>,
     \* the ingest_ids in the ledger when the request arrived, kept for the properties
     ledger_at_start |-> {}]

\* the handler's locals change; the evaluator harness is left alone
Set(h, rec) ==
    /\ handlers' = [handlers EXCEPT ![h] = rec]
    /\ UNCHANGED <<sql_errors, emitted_changes, other_vars>>

\* enum IngestResult { Ok = 0, Duplicate = 1, Error = 2 }
IngestResultCode(ret) ==
    CASE ret = "Ok" -> 0
      [] ret = "Duplicate" -> 1
      [] OTHER -> 2

\* a faulty variant of item_result: the error of a failed envelope is left empty
item_result_silent(ingest_id, ret) ==
    [ingest_id |-> ingest_id, result |-> IngestResultCode(ret), error |-> ""]

\* a faulty variant of item_result: the ingest_id of the envelope is left out
item_result_no_id(ingest_id, ret) ==
    [ingest_id |-> 0, result |-> IngestResultCode(ret),
     error |-> IF ret = "Err" THEN "sql error" ELSE ""]

\* the ItemResult pushed for an envelope: e.to_string() of an SQL error is not empty
item_result(ingest_id, ret) ==
    [ingest_id |-> ingest_id, result |-> IngestResultCode(ret),
     error |-> IF ret = "Err" THEN "sql error" ELSE ""]

\* what is remembered of a call that fails or is cancelled: its envelope, whether
\* it had written the state row, and whether that changed the stored severity
Stopped(me) ==
    Some([env |-> me.env, upserted |-> me.upserted,
          changed |-> /\ me.upserted
                      /\ (IF IsSome(me.sev_before) THEN Unwrap(me.sev_before)
                          ELSE "NORMAL")
                           # (CHOOSE r \in plant_current_state :
                                 r.plant_id = me.env.plant_id).severity])

\* process_envelope returns Ok((code, opt_change)) or Err(e) (ret = "Err"), and the
\* match of ingest_telemetry pushes the ItemResult and the StatusChange
Return(h, ret, opt_change) ==
    LET me == handlers[h] IN
    /\ sql_errors' = IF ret = "Err" THEN sql_errors + 1 ELSE sql_errors
    /\ emitted_changes' = IF ret # "Err" /\ IsSome(opt_change)
                          THEN Append(emitted_changes, Unwrap(opt_change))
                          ELSE emitted_changes
    /\ UNCHANGED other_vars
    /\ handlers' = [handlers EXCEPT ![h] = [me EXCEPT
        !.pc = "loop",
        !.ret = ret,
        !.ret_change = IF ret = "Err" THEN None ELSE opt_change,
        !.failed = (ret = "Err"),
        !.ok_calls = IF ret = "Ok" THEN @ + 1 ELSE @,
        !.late_failures = IF ret = "Err" /\ me.ticker_inserted THEN @ + 1 ELSE @,
        !.interrupted = IF ret = "Err" THEN Stopped(me) ELSE None,
        !.results = Append(@, item_result(me.env.ingest_id, ret)),
        !.status_changes = IF ret # "Err" /\ IsSome(opt_change)
                           THEN Append(@, Unwrap(opt_change)) ELSE @]]

\* a statement awaited with `?` fails: process_envelope returns Err(e)
SqlError(h) ==
    /\ nfaults < MaxFaults
    /\ nfaults' = nfaults + 1
    /\ Return(h, "Err", None)
    /\ UNCHANGED <<telemetry_ingest_ledger, plant, plant_current_state, severity_log,
                   device, ticker_event, sink_points, bus, amqp_chan, ncalls>>

\* a faulty variant of record_ledger: ON CONFLICT (ingest_id) DO UPDATE SET result
record_ledger_overwrite(ledger, env, result) ==
    { r \in ledger : r.ingest_id # env.ingest_id }
      \cup { [ingest_id |-> env.ingest_id, device_uid |-> env.device_uid,
              plant_id |-> parse_str(env.plant_id),
              timestamp_ns |-> env.timestamp_ns, result |-> result] }

\* a faulty variant of record_ledger: no ledger row is written
record_ledger_skip(ledger, env, result) == ledger

\* INSERT INTO telemetry_ingest_ledger ... ON CONFLICT (ingest_id) DO NOTHING
record_ledger(ledger, env, result) ==
    IF \E r \in ledger : r.ingest_id = env.ingest_id
    THEN ledger
    ELSE ledger \cup { [ingest_id |-> env.ingest_id, device_uid |-> env.device_uid,
                        plant_id |-> parse_str(env.plant_id),
                        timestamp_ns |-> env.timestamp_ns, result |-> result] }

\* a faulty variant of ledger_probe: the deduplication check never finds a row
ledger_probe_none(ledger, ingest_id) == None

\* a faulty variant of ledger_probe: only an 'OK' row makes a duplicate
ledger_probe_ok_only(ledger, ingest_id) ==
    IF \E r \in ledger : r.ingest_id = ingest_id /\ r.result = "OK"
    THEN Some("OK")
    ELSE None

\* SELECT result FROM telemetry_ingest_ledger WHERE ingest_id = $1 (fetch_optional)
ledger_probe(ledger, ingest_id) ==
    IF \E r \in ledger : r.ingest_id = ingest_id
    THEN Some((CHOOSE r \in ledger : r.ingest_id = ingest_id).result)
    ELSE None

\* ingest_telemetry is called: a handler task starts on a request (while fewer than
\* calls envelopes have been processed)
AcceptRequest(h, calls) ==
    /\ handlers[h].pc = "idle"
    /\ ncalls < calls
    /\ Set(h, [IdleHandler EXCEPT
                 !.pc = "loop",
                 !.interrupted = handlers[h].interrupted,
                 !.ok_calls = handlers[h].ok_calls,
                 !.late_failures = handlers[h].late_failures,
                 !.ledger_at_start = { r.ingest_id : r \in telemetry_ingest_ledger }])
    /\ UNCHANGED <<telemetry_ingest_ledger, plant, plant_current_state, severity_log,
                   device, ticker_event, sink_points, bus, amqp_chan, ncalls,
                   nfaults>>

IngestTelemetry(h) == AcceptRequest(h, MaxCalls)

\* for envelope in &req.envelopes: the next envelope, process_envelope is entered
\* (requests carry at most batch envelopes)
EnterEnvelope(h, e, calls, batch) ==
    /\ handlers[h].pc = "loop"
    /\ ncalls < calls
    /\ Len(handlers[h].req) < batch
    /\ ncalls' = ncalls + 1
    /\ Set(h, [IdleHandler EXCEPT
                 !.pc = "probe", !.env = e,
                 !.replay = (\E i \in handlers[h].interrupted : i.env = e),
                 !.rewrite = (\E i \in handlers[h].interrupted :
                                i.env = e /\ i.upserted),
                 !.changed_before = (\E i \in handlers[h].interrupted :
                                       i.env = e /\ i.changed),
                 !.seen_before = (\E r \in telemetry_ingest_ledger :
                                    r.ingest_id = e.ingest_id),
                 !.req = Append(handlers[h].req, e),
                 !.ok_calls = handlers[h].ok_calls,
                 !.late_failures = handlers[h].late_failures,
                 !.results = handlers[h].results,
                 !.status_changes = handlers[h].status_changes,
                 !.detected = handlers[h].detected,
                 !.ledger_at_start = handlers[h].ledger_at_start])
    /\ UNCHANGED <<telemetry_ingest_ledger, plant, plant_current_state, severity_log,
                   device, ticker_event, sink_points, bus, amqp_chan, nfaults>>

NextEnvelope(h, e) == EnterEnvelope(h, e, MaxCalls, MaxBatch)

\* the loop is over: the response is returned
Respond(h) ==
    /\ handlers[h].pc = "loop"
    /\ Set(h, [handlers[h] EXCEPT !.pc = "idle"])
    /\ UNCHANGED <<telemetry_ingest_ledger, plant, plant_current_state, severity_log,
                   device, ticker_event, sink_points, bus, amqp_chan, ncalls,
                   nfaults>>

\* Uuid::parse_str, then the deduplication check
Probe(h) ==
    LET me == handlers[h] IN
    /\ me.pc = "probe"
    /\ \/ /\ parse_str(me.env.plant_id) = None
          /\ Return(h, "Error", None)
          /\ UNCHANGED <<telemetry_ingest_ledger, plant, plant_current_state,
                         severity_log, device, ticker_event, sink_points,
                         bus, amqp_chan, ncalls, nfaults>>
       \/ /\ parse_str(me.env.plant_id) # None
          /\ LET existing == ledger_probe(telemetry_ingest_ledger, me.env.ingest_id) IN
             Set(h, [me EXCEPT !.existing = existing,
                               !.pc = IF IsSome(existing) THEN "dup" ELSE "plant"])
          /\ UNCHANGED <<telemetry_ingest_ledger, plant, plant_current_state,
                         severity_log, device, ticker_event, sink_points,
                         bus, amqp_chan, ncalls, nfaults>>
       \/ /\ parse_str(me.env.plant_id) # None
          /\ SqlError(h)

\* a faulty variant of touch_device: the update also clears last_ingest_id
touch_device_clears_ingest(dev, device_uid, at) ==
    { IF d.device_uid = device_uid
      THEN [d EXCEPT !.last_seen_at = at, !.last_ingest_id = None]
      ELSE d : d \in dev }

\* UPDATE device SET last_seen_at = NOW() WHERE device_uid = $1, result ignored
touch_device(dev, device_uid, at) ==
    { IF d.device_uid = device_uid THEN [d EXCEPT !.last_seen_at = at] ELSE d : d \in dev }

Duplicate(h) ==
    LET me == handlers[h] IN
    /\ me.pc = "dup"
    /\ \/ /\ device' = touch_device(device, me.env.device_uid, NOW)
          /\ nfaults' = nfaults
       \/ /\ nfaults < MaxFaults
          /\ nfaults' = nfaults + 1
          /\ device' = device
    /\ Return(h, "Duplicate", None)
    /\ UNCHANGED <<telemetry_ingest_ledger, plant, plant_current_state, severity_log,
                   ticker_event, sink_points, bus, amqp_chan, ncalls>>

\* a faulty variant of plant_lookup: the is_active filter is missing
plant_lookup_any(plants, plant_id) == { r \in plants : r.id = plant_id }

\* SELECT id, plant_type_id FROM plant WHERE id = $1 AND is_active = TRUE
plant_lookup(plants, plant_id) == { r \in plants : r.id = plant_id /\ r.is_active }

PlantLookup(h) ==
    LET me == handlers[h]
        plant_row == plant_lookup(plant, Unwrap(parse_str(me.env.plant_id)))
    IN
    /\ me.pc = "plant"
    /\ \/ /\ IsSome(plant_row)
          /\ Set(h, [me EXCEPT !.plant_type_id = Unwrap(plant_row).plant_type_id,
                               !.pc = "thresholds"])
          /\ UNCHANGED nfaults
       \/ /\ plant_row = None
          /\ Set(h, [me EXCEPT !.pc = "ledger_error"])
          /\ UNCHANGED nfaults
       \/ SqlError(h)
    /\ UNCHANGED <<telemetry_ingest_ledger, plant, plant_current_state, severity_log,
                   device, ticker_event, sink_points, bus, amqp_chan, ncalls>>

\* record_ledger(pool, envelope, "ERROR") and return (Error, None)
LedgerError(h) ==
    LET me == handlers[h] IN
    /\ me.pc = "ledger_error"
    /\ \/ /\ telemetry_ingest_ledger' =
                record_ledger(telemetry_ingest_ledger, me.env, "ERROR")
          /\ Return(h, "Error", None)
          /\ UNCHANGED <<plant, plant_current_state, severity_log, device,
                         ticker_event, sink_points, bus, amqp_chan,
                         ncalls, nfaults>>
       \/ SqlError(h)

\* the threshold rows of the plant type (fetch_all keeps the table's order)
plant_type_metric_threshold == InitThresholds

threshold_rows(plant_type_id) ==
    SelectSeq(plant_type_metric_threshold, LAMBDA r : r.plant_type_id = plant_type_id)

\* thresholds.iter().find(|t| t.metric == *metric_name)
find_threshold(thresholds, metric_name) ==
    LET hits == { i \in 1..Len(thresholds) : thresholds[i].metric = metric_name } IN
    IF hits = {} THEN None
    ELSE Some(thresholds[CHOOSE i \in hits : \A j \in hits : i <= j])

present_metrics(env) == { m \in MetricNames : IsSome(env[m]) }

\* a faulty variant of metric_severity_of: a metric without a threshold row counts as Warn
metric_severity_of_absent_warn(thresholds, metric_name, val) ==
    LET thresh == find_threshold(thresholds, metric_name) IN
    IF IsSome(thresh) THEN evaluate_metric(val, Unwrap(thresh)) ELSE Warn

metric_severity_of(thresholds, metric_name, val) ==
    LET thresh == find_threshold(thresholds, metric_name) IN
    IF IsSome(thresh) THEN evaluate_metric(val, Unwrap(thresh)) ELSE Normal

\* the metric_severities map: one entry per reading that is present
metric_severities_of(env, thresholds) ==
    [m \in present_metrics(env) |-> metric_severity_of(thresholds, m, Unwrap(env[m]))]

\* metric_severities.values() as a list (the HashMap's order is not specified)
RECURSIVE values_from(_, _)
values_from(map, i) ==
    IF i > Len(Metrics) THEN <<>>
    ELSE IF Metrics[i] \in DOMAIN map
         THEN <<map[Metrics[i]]>> \o values_from(map, i + 1)
         ELSE values_from(map, i + 1)

values(map) == values_from(map, 1)

LoadThresholds(h) ==
    LET me == handlers[h]
        thresholds == threshold_rows(me.plant_type_id)
        metric_severities == metric_severities_of(me.env, thresholds)
    IN
    /\ me.pc = "thresholds"
    /\ \/ /\ Set(h, [me EXCEPT
                 !.metric_severities = metric_severities,
                 !.overall_severity = aggregate_severity(values(metric_severities)),
                 !.pc = "prev"])
          /\ UNCHANGED nfaults
       \/ SqlError(h)
    /\ UNCHANGED <<telemetry_ingest_ledger, plant, plant_current_state, severity_log,
                   device, ticker_event, sink_points, bus, amqp_chan, ncalls>>

\* SELECT severity FROM plant_current_state WHERE plant_id = $1 (fetch_optional)
state_row(pcs, plant_id) == { r \in pcs : r.plant_id = plant_id }

\* a faulty variant of prev_severity_of: a missing state row reads as Critical
prev_severity_of_default_critical(prev_row) ==
    IF IsSome(prev_row) THEN from_str(Unwrap(prev_row).severity) ELSE Critical

\* prev_row.and_then(severity).map(from_str).unwrap_or(Normal)
prev_severity_of(prev_row) ==
    IF IsSome(prev_row) THEN from_str(Unwrap(prev_row).severity) ELSE Normal

\* a faulty variant of fields_is_empty: the point is written whatever it holds
fields_is_empty_never(env) == FALSE

\* fields.is_empty(): none of the four readings was inserted into the fields
fields_is_empty(env) == present_metrics(env) = {}

PrevSeverity(h) ==
    LET me == handlers[h]
        prev_row == state_row(plant_current_state, Unwrap(parse_str(me.env.plant_id)))
    IN
    /\ me.pc = "prev"
    /\ \/ /\ Set(h, [me EXCEPT
                 !.prev_severity = prev_severity_of(prev_row),
                 !.read_severity = { r.severity : r \in prev_row },
                 !.pc = IF ~fields_is_empty(me.env) THEN "sink" ELSE "upsert"])
          /\ UNCHANGED nfaults
       \/ SqlError(h)
    /\ UNCHANGED <<telemetry_ingest_ledger, plant, plant_current_state, severity_log,
                   device, ticker_event, sink_points, bus, amqp_chan, ncalls>>

\* the TelemetryPoint built from the envelope
point_of(env, plant_type_id) ==
    [measurement |-> "plant_telemetry",
     tags |-> [plant_id |-> env.plant_id, device_uid |-> env.device_uid,
               plant_type_id |-> plant_type_id],
     fields |-> [m \in present_metrics(env) |-> Unwrap(env[m])],
     timestamp_ns |-> env.timestamp_ns]

\* a faulty variant of after_sink_write: a failed write skips the writes of the state
after_sink_write_abort(me, written) ==
    [me EXCEPT !.pc = IF written THEN "upsert" ELSE "ledger_ok"]

\* if let Err(e) = sink.write_points(..) { warn!(..) }: processing goes on either way
after_sink_write(me, written) == [me EXCEPT !.pc = "upsert"]

\* sink.write_points(vec![point]); an error is logged and processing goes on
SinkWrite(h) ==
    LET me == handlers[h] IN
    /\ me.pc = "sink"
    /\ \/ /\ sink_points' = Append(sink_points, point_of(me.env, me.plant_type_id))
          /\ UNCHANGED nfaults
          /\ Set(h, [after_sink_write(me, TRUE) EXCEPT !.sink_calls = @ + 1])
       \/ /\ nfaults < MaxFaults
          /\ nfaults' = nfaults + 1
          /\ UNCHANGED sink_points
          /\ Set(h, [after_sink_write(me, FALSE) EXCEPT !.sink_calls = @ + 1])
    /\ UNCHANGED <<telemetry_ingest_ledger, plant, plant_current_state, severity_log,
                   device, ticker_event, bus, amqp_chan, ncalls>>

COALESCE(new, old) == IF IsSome(new) THEN new ELSE old

\* the row bound to the INSERT INTO plant_current_state
excluded_row(plant_id, env, overall_severity, metric_severities, at) ==
    [plant_id |-> plant_id, updated_at |-> at, last_ingest_id |-> env.ingest_id,
     severity |-> as_str(overall_severity),
     soil_moisture |-> env.soil_moisture,
     ambient_light_lux |-> env.ambient_light_lux,
     ambient_humidity_rh |-> env.ambient_humidity_rh,
     ambient_temp_c |-> env.ambient_temp_c,
     metric_severity |-> [m \in DOMAIN metric_severities |-> as_str(metric_severities[m])]]

\* a faulty variant of on_conflict_update: the reading columns are overwritten, nulls included
on_conflict_overwrite(old, EXCLUDED) == EXCLUDED

\* a faulty variant of on_conflict_update: the stored severity is kept
on_conflict_keep_severity(old, EXCLUDED) ==
    [old EXCEPT
        !.updated_at = EXCLUDED.updated_at,
        !.last_ingest_id = EXCLUDED.last_ingest_id,
        !.soil_moisture = COALESCE(EXCLUDED.soil_moisture, old.soil_moisture),
        !.ambient_light_lux = COALESCE(EXCLUDED.ambient_light_lux, old.ambient_light_lux),
        !.ambient_humidity_rh =
            COALESCE(EXCLUDED.ambient_humidity_rh, old.ambient_humidity_rh),
        !.ambient_temp_c = COALESCE(EXCLUDED.ambient_temp_c, old.ambient_temp_c),
        !.metric_severity = EXCLUDED.metric_severity]

\* ON CONFLICT (plant_id) DO UPDATE SET ...
on_conflict_update(old, EXCLUDED) ==
    [old EXCEPT
        !.updated_at = EXCLUDED.updated_at,
        !.last_ingest_id = EXCLUDED.last_ingest_id,
        !.severity = EXCLUDED.severity,
        !.soil_moisture = COALESCE(EXCLUDED.soil_moisture, old.soil_moisture),
        !.ambient_light_lux = COALESCE(EXCLUDED.ambient_light_lux, old.ambient_light_lux),
        !.ambient_humidity_rh =
            COALESCE(EXCLUDED.ambient_humidity_rh, old.ambient_humidity_rh),
        !.ambient_temp_c = COALESCE(EXCLUDED.ambient_temp_c, old.ambient_temp_c),
        !.metric_severity = EXCLUDED.metric_severity]

\* INSERT INTO plant_current_state ... ON CONFLICT (plant_id) DO UPDATE SET ...
upsert_state(pcs, EXCLUDED) ==
    IF \E r \in pcs : r.plant_id = EXCLUDED.plant_id
    THEN { IF r.plant_id = EXCLUDED.plant_id THEN on_conflict_update(r, EXCLUDED) ELSE r :
             r \in pcs }
    ELSE pcs \cup {EXCLUDED}

UpsertState(h) ==
    LET me == handlers[h]
        plant_id == Unwrap(parse_str(me.env.plant_id))
        old == state_row(plant_current_state, plant_id)
    IN
    /\ me.pc = "upsert"
    /\ \/ /\ plant_current_state' =
                upsert_state(plant_current_state,
                             excluded_row(plant_id, me.env, me.overall_severity,
                                          me.metric_severities, NOW))
          /\ severity_log' =
                LET s == IF IsSome(old) THEN Unwrap(old).severity ELSE "NORMAL"
                    t == (CHOOSE r \in plant_current_state' : r.plant_id = plant_id).severity
                IN IF s # t THEN Append(severity_log, <<plant_id, s, t>>)
                   ELSE severity_log
          /\ Set(h, [me EXCEPT
                 !.sev_before = IF IsSome(old) THEN Some(Unwrap(old).severity) ELSE None,
                 !.upserted = TRUE,
                 !.pc = "device"])
          /\ UNCHANGED <<telemetry_ingest_ledger, plant, device, ticker_event,
                         sink_points, bus, amqp_chan, ncalls, nfaults>>
       \/ SqlError(h)

\* UPDATE device SET last_seen_at = NOW(), last_ingest_id = $2 WHERE device_uid = $1
update_device(dev, device_uid, ingest_id, at) ==
    { IF d.device_uid = device_uid
      THEN [d EXCEPT !.last_seen_at = at, !.last_ingest_id = Some(ingest_id)]
      ELSE d : d \in dev }

UpdateDevice(h) ==
    LET me == handlers[h] IN
    /\ me.pc = "device"
    /\ \/ /\ device' = update_device(device, me.env.device_uid, me.env.ingest_id, NOW)
          /\ Set(h, [me EXCEPT !.device_updated = TRUE, !.pc = "ticker"])
          /\ UNCHANGED <<telemetry_ingest_ledger, plant, plant_current_state,
                         severity_log, ticker_event, sink_points, bus,
                         amqp_chan, ncalls, nfaults>>
       \/ SqlError(h)

\* a faulty variant of ticker_row: every row says NORMAL
ticker_row_normal(plant_id, env, overall_severity) ==
    [plant_id |-> plant_id, device_uid |-> env.device_uid,
     severity |-> "NORMAL",
     message |-> <<"Plant ", env.plant_id, " reading: severity=", "NORMAL">>,
     payload |-> [ingest_id |-> env.ingest_id]]

\* the row of INSERT INTO ticker_event (id and occurred_at are the table's defaults)
ticker_row(plant_id, env, overall_severity) ==
    [plant_id |-> plant_id, device_uid |-> env.device_uid,
     severity |-> as_str(overall_severity),
     message |-> <<"Plant ", env.plant_id, " reading: severity=", as_str(overall_severity)>>,
     payload |-> [ingest_id |-> env.ingest_id]]

\* a faulty variant of status_change_of: a StatusChange is built for every envelope
status_change_always(env, prev_severity, overall_severity) ==
    Some([plant_id |-> env.plant_id, prev_severity |-> prev_severity,
          new_severity |-> overall_severity, occurred_at_ns |-> env.timestamp_ns])

\* a faulty variant of status_change_of: prev_severity and new_severity are swapped
status_change_swapped(env, prev_severity, overall_severity) ==
    IF overall_severity # prev_severity
    THEN Some([plant_id |-> env.plant_id, prev_severity |-> overall_severity,
               new_severity |-> prev_severity, occurred_at_ns |-> env.timestamp_ns])
    ELSE None

\* if overall_severity != prev_severity { Some(StatusChange {..}) } else { None }
\* (severity_to_proto keeps the three severities apart)
status_change_of(env, prev_severity, overall_severity) ==
    IF overall_severity # prev_severity
    THEN Some([plant_id |-> env.plant_id, prev_severity |-> prev_severity,
               new_severity |-> overall_severity, occurred_at_ns |-> env.timestamp_ns])
    ELSE None

\* a faulty variant of after_ticker: without a channel no StatusChange is returned
after_ticker_channel_only(me, change, chan) ==
    [me EXCEPT
        !.ticker_inserted = TRUE,
        !.status_change = IF chan THEN change ELSE None,
        !.detected = IF IsSome(change) THEN Append(@, Unwrap(change)) ELSE @,
        !.pc = IF IsSome(change) /\ chan THEN "publish" ELSE "ledger_ok"]

\* after the ticker insert: the StatusChange is built when the severities differ, and
\* it is published first when a channel is configured (if let Some(chan) = amqp_chan)
after_ticker(me, change, chan) ==
    [me EXCEPT
        !.ticker_inserted = TRUE,
        !.status_change = change,
        !.detected = IF IsSome(change) THEN Append(@, Unwrap(change)) ELSE @,
        !.pc = IF IsSome(change) /\ chan THEN "publish" ELSE "ledger_ok"]

\* INSERT INTO ticker_event, then the status change is computed
InsertTicker(h) ==
    LET me == handlers[h]
        change == status_change_of(me.env, me.prev_severity, me.overall_severity)
    IN
    /\ me.pc = "ticker"
    /\ \/ /\ ticker_event' =
                Append(ticker_event,
                       ticker_row(Unwrap(parse_str(me.env.plant_id)), me.env,
                                  me.overall_severity))
          /\ Set(h, after_ticker(me, change, amqp_chan))
          /\ UNCHANGED <<telemetry_ingest_ledger, plant, plant_current_state,
                         severity_log, device, sink_points, bus,
                         amqp_chan, ncalls, nfaults>>
       \/ SqlError(h)

\* the JSON body published on plant.status_change
bus_message(env, prev_severity, overall_severity) ==
    [type |-> "PlantStatusChanged.v1", plant_id |-> env.plant_id,
     prev_severity |-> as_str(prev_severity), new_severity |-> as_str(overall_severity),
     occurred_at_ns |-> env.timestamp_ns]

\* chan.basic_publish(...), result ignored
Publish(h) ==
    LET me == handlers[h] IN
    /\ me.pc = "publish"
    /\ \/ /\ bus' = Append(bus, bus_message(me.env, me.prev_severity, me.overall_severity))
          /\ UNCHANGED nfaults
       \/ /\ nfaults < MaxFaults
          /\ nfaults' = nfaults + 1
          /\ UNCHANGED bus
    /\ Set(h, [me EXCEPT !.pc = "ledger_ok"])
    /\ UNCHANGED <<telemetry_ingest_ledger, plant, plant_current_state, severity_log,
                   device, ticker_event, sink_points, amqp_chan, ncalls>>

\* record_ledger(pool, envelope, "OK") and return (Ok, status_change)
LedgerOk(h) ==
    LET me == handlers[h] IN
    /\ me.pc = "ledger_ok"
    /\ \/ /\ telemetry_ingest_ledger' =
                record_ledger(telemetry_ingest_ledger, me.env, "OK")
          /\ Return(h, "Ok", me.status_change)
          /\ UNCHANGED <<plant, plant_current_state, severity_log, device,
                         ticker_event, sink_points, bus, amqp_chan,
                         ncalls, nfaults>>
       \/ SqlError(h)

\* the request is cancelled: the future of ingest_telemetry is dropped while
\* process_envelope waits at one of its await points, and nothing is returned
Cancel(h) ==
    LET me == handlers[h] IN
    /\ me.pc \notin {"idle", "loop"}
    /\ nfaults < MaxFaults
    /\ nfaults' = nfaults + 1
    /\ Set(h, [me EXCEPT !.pc = "idle", !.stopped_at = me.pc,
                         !.interrupted = Stopped(me)])
    /\ UNCHANGED <<telemetry_ingest_ledger, plant, plant_current_state, severity_log,
                   device, ticker_event, sink_points, bus, amqp_chan, ncalls>>

(***************************************************************************)
(* Specifications                                                          *)
(***************************************************************************)

IngestInit ==
    /\ telemetry_ingest_ledger = {}
    /\ plant = InitPlant
    /\ plant_current_state = {}
    /\ device = InitDevice
    /\ ticker_event = <<>>
    /\ sink_points = <<>>
    /\ bus = <<>>
    /\ amqp_chan \in BOOLEAN
    /\ handlers = [h \in Handlers |-> IdleHandler]
    /\ ncalls = 0
    /\ nfaults = 0
    /\ sql_errors = 0
    /\ severity_log = <<>>
    /\ emitted_changes = <<>>

EvalIdle ==
    /\ ev_threshold = [warn_min |-> None, warn_max |-> None,
                       crit_min |-> None, crit_max |-> None]
    /\ ev_results = {}

AggIdle ==
    /\ agg_input = <<>>
    /\ agg_results = {}

\* the event-router is not running
RouterIdle ==
    /\ rx_queue = <<>>
    /\ receiver = [enqueued |-> 0, dropped |-> 0, rejected |-> 0, recv_errors |-> 0,
                   last |-> <<>>, tx |-> TRUE, queued_at_drop |-> 0]
    /\ batcher = [pc |-> "recv", batch_size |-> 0, batch |-> <<>>, in_flight |-> <<>>,
                  elapsed |-> FALSE, last_rpc |-> "", taken |-> <<>>,
                  discarded |-> <<>>]
    /\ forwarded = <<>>

\* no point is being serialized
LpIdle ==
    /\ lp_point = [measurement |-> <<>>, tags |-> <<>>, fields |-> <<>>,
                   timestamp_ns |-> 0]
    /\ lp_lines = [sink |-> None, service |-> None]

\* one of the two futures of post_data: where it is, the results it has collected and
\* the value it returned
IdleWrite == [pc |-> "idle", results |-> <<>>, value |-> None]

\* no POST /data request is being handled
CoordIdle ==
    coord = [pc |-> "idle", req |-> [structured |-> None, timeseries |-> None],
             structured |-> IdleWrite, timeseries |-> IdleWrite,
             pg_calls |-> <<>>, influx_calls |-> <<>>, response |-> None]

\* the callers of the memory sink (tasks that share a clone of it)
SinkCallers == {1, 2}

IdleCaller == [pc |-> "idle", op |-> "", rest |-> <<>>, points |-> <<>>]

\* FakeTelemetrySink::new(): an empty buffer, nobody holds the mutex
FakeIdle ==
    fake = [points |-> <<>>, mutex |-> None,
            callers |-> [c \in SinkCallers |-> IdleCaller],
            log |-> <<>>, next |-> 0, calls |-> 0]

Init == IngestInit /\ EvalIdle /\ AggIdle /\ RouterIdle /\ LpIdle /\ CoordIdle /\ FakeIdle

ProcessEnvelope(h) ==
    \/ Probe(h)
    \/ Duplicate(h)
    \/ PlantLookup(h)
    \/ LedgerError(h)
    \/ LoadThresholds(h)
    \/ PrevSeverity(h)
    \/ SinkWrite(h)
    \/ UpsertState(h)
    \/ UpdateDevice(h)
    \/ InsertTicker(h)
    \/ Publish(h)
    \/ LedgerOk(h)

HandlerStep(h, offered) ==
    \/ IngestTelemetry(h)
    \/ \E e \in offered : NextEnvelope(h, e)
    \/ Respond(h)
    \/ ProcessEnvelope(h)

\* handler tasks run concurrently, one SQL statement at a time
Next == \E h \in Handlers : HandlerStep(h, ConcEnvelopes)

Spec == Init /\ [][Next]_vars

\* one handler: process_envelope calls run one after another
SeqNext == HandlerStep(1, SeqEnvelopes)

SeqSpec == Init /\ [][SeqNext]_vars

\* one handler, whose request may be cancelled
CancelNext ==
    \/ SeqNext
    \/ Cancel(1)

CancelSpec == Init /\ [][CancelNext]_vars

\* the plant table is changed from outside while the supervisor runs: an inactive
\* plant is made active, or a plant that did not exist is registered
ActivatePlant(p) ==
    /\ ~\E r \in plant : r.id = p /\ r.is_active
    /\ plant' = { r \in plant : r.id # p }
                   \cup { [id |-> p, plant_type_id |-> "T", is_active |-> TRUE] }
    /\ UNCHANGED <<telemetry_ingest_ledger, plant_current_state, device, ticker_event,
                   sink_points, bus, amqp_chan, handlers, ncalls, nfaults,
                   sql_errors, severity_log, emitted_changes, other_vars>>

\* one handler, and plants that become active
PlantNext ==
    \/ SeqNext
    \/ \E p \in {"Q", "R"} : ActivatePlant(p)

PlantSpec == Init /\ [][PlantNext]_vars

\* the seed scenarios: the store holds the seed plant, and no statement fails
SeedInit ==
    /\ telemetry_ingest_ledger = {}
    /\ plant = SeedPlant
    /\ plant_current_state = {}
    /\ device = InitDevice
    /\ ticker_event = <<>>
    /\ sink_points = <<>>
    /\ bus = <<>>
    /\ amqp_chan \in BOOLEAN
    /\ handlers = [h \in Handlers |-> IdleHandler]
    /\ ncalls = 0
    /\ nfaults = MaxFaults
    /\ sql_errors = 0
    /\ severity_log = <<>>
    /\ emitted_changes = <<>>
    /\ EvalIdle /\ AggIdle /\ RouterIdle /\ LpIdle /\ CoordIdle /\ FakeIdle

\* one handler is sent the seed envelopes in order, in requests of any size
SeedNext ==
    \/ AcceptRequest(1, Len(SeedScenarios))
    \/ /\ ncalls < Len(SeedScenarios)
       /\ EnterEnvelope(1, SeedScenarios[ncalls + 1], Len(SeedScenarios),
                        Len(SeedScenarios))
    \/ Respond(1)
    \/ Probe(1)
    \/ Duplicate(1)
    \/ PlantLookup(1)
    \/ LoadThresholds(1)
    \/ PrevSeverity(1)
    \/ SinkWrite(1)
    \/ UpsertState(1)
    \/ UpdateDevice(1)
    \/ InsertTicker(1)
    \/ Publish(1)
    \/ LedgerOk(1)

SeedSpec == SeedInit /\ [][SeedNext]_vars

(***************************************************************************)
(* The threshold evaluator on its own: a threshold is drawn, values are    *)
(* evaluated against it (threshold.rs, tests)                              *)
(***************************************************************************)

Bounds == {None} \cup { Some(b) : b \in 1..MaxBound }
EvalValues == 0..(MaxBound + 1)

\* fn thresh(warn_min, warn_max, crit_min, crit_max) of the tests
thresh(warn_min, warn_max, crit_min, crit_max) ==
    [metric |-> "test", warn_min |-> warn_min, warn_max |-> warn_max,
     crit_min |-> crit_min, crit_max |-> crit_max]

EvalInit ==
    /\ IngestInit
    /\ AggIdle
    /\ RouterIdle
    /\ LpIdle /\ CoordIdle /\ FakeIdle
    /\ amqp_chan = FALSE
    /\ ev_threshold \in { thresh(wmin, wmax, cmin, cmax) :
                            wmin \in Bounds, wmax \in Bounds,
                            cmin \in Bounds, cmax \in Bounds }
    /\ ev_results = {}

Evaluate(value) ==
    /\ ev_results' = ev_results \cup
          { [value |-> value, severity |-> evaluate_metric(value, ev_threshold)] }
    /\ UNCHANGED ev_threshold
    /\ UNCHANGED <<ingest_vars, agg_vars, router_vars, lp_vars, coord_vars, fake_vars>>

EvalNext == \E value \in EvalValues : Evaluate(value)

EvalSpec == EvalInit /\ [][EvalNext]_vars

(***************************************************************************)
(* aggregate_severity on its own: a collection of severities is drawn,     *)
(* reordered and repeated, and aggregated (threshold.rs, tests)            *)
(***************************************************************************)

SeverityLists ==
    UNION { [1..n -> Severity] : n \in 0..MaxSeverities }

AggInit ==
    /\ IngestInit
    /\ EvalIdle
    /\ RouterIdle
    /\ LpIdle /\ CoordIdle /\ FakeIdle
    /\ amqp_chan = FALSE
    /\ agg_input \in SeverityLists
    /\ agg_results = {}

\* aggregate_severity(agg_input) is called
Aggregate ==
    /\ Cardinality(agg_results) < MaxAggregations
    /\ agg_results' = agg_results \cup
          { [input |-> agg_input, result |-> aggregate_severity(agg_input)] }
    /\ agg_results' # agg_results
    /\ UNCHANGED agg_input
    /\ UNCHANGED <<ingest_vars, eval_vars, router_vars, lp_vars, coord_vars, fake_vars>>

\* the caller hands over the same severities in another order
Reorder(i, j) ==
    /\ i < j /\ j <= Len(agg_input)
    /\ agg_input[i] # agg_input[j]
    /\ agg_input' = [agg_input EXCEPT ![i] = agg_input[j], ![j] = agg_input[i]]
    /\ UNCHANGED agg_results
    /\ UNCHANGED <<ingest_vars, eval_vars, router_vars, lp_vars, coord_vars, fake_vars>>

\* the caller hands over one of the severities once more
Repeat(i) ==
    /\ i <= Len(agg_input)
    /\ Len(agg_input) < MaxSeverities
    /\ agg_input' = Append(agg_input, agg_input[i])
    /\ UNCHANGED agg_results
    /\ UNCHANGED <<ingest_vars, eval_vars, router_vars, lp_vars, coord_vars, fake_vars>>

AggNext ==
    \/ Aggregate
    \/ \E i, j \in 1..MaxSeverities : Reorder(i, j)
    \/ \E i \in 1..MaxSeverities : Repeat(i)

AggSpec == AggInit /\ [][AggNext]_vars

(***************************************************************************)
(* event-router: codec.rs, ingest_id.rs, main.rs                           *)
(*                                                                         *)
(* The strings of a datagram are sequences of characters, so that trim()   *)
(* is computed.  serde_json::from_slice succeeds on a datagram that is    *)
(* JSON of the shape of UdpTelemetryMessage (well_formed) and fails on any *)
(* other.                                                                  *)
(***************************************************************************)

\* mpsc::channel::<TelemetryEnvelope>(1024)
QueueCapacity == 1024

Ok(v) == [tag |-> "Ok", value |-> v]
Err(e) == [tag |-> "Err", error |-> e]

is_whitespace(c) == c \in {" ", "\t"}

RECURSIVE trim_start(_)
trim_start(str) ==
    IF str # <<>> /\ is_whitespace(Head(str)) THEN trim_start(Tail(str)) ELSE str

RECURSIVE trim_end(_)
trim_end(str) ==
    IF str # <<>> /\ is_whitespace(str[Len(str)])
    THEN trim_end(SubSeq(str, 1, Len(str) - 1))
    ELSE str

trim(str) == trim_end(trim_start(str))

\* the bytes of a datagram: whether they are JSON of the message's shape, and the
\* fields they carry
Datagram(well_formed, version, device_uid, plant_id, seq) ==
    [well_formed |-> well_formed, version |-> version, device_uid |-> device_uid,
     plant_id |-> plant_id, seq |-> seq, timestamp_ns |-> 1000 + seq,
     soil_moisture |-> Some(55), ambient_light_lux |-> None,
     ambient_humidity_rh |-> None, ambient_temp_c |-> Some(22)]

\* serde_json::from_slice(bytes)
from_slice(bytes) ==
    IF bytes.well_formed
    THEN Ok([version |-> bytes.version, device_uid |-> bytes.device_uid,
             plant_id |-> bytes.plant_id, seq |-> bytes.seq,
             timestamp_ns |-> bytes.timestamp_ns,
             soil_moisture |-> bytes.soil_moisture,
             ambient_light_lux |-> bytes.ambient_light_lux,
             ambient_humidity_rh |-> bytes.ambient_humidity_rh,
             ambient_temp_c |-> bytes.ambient_temp_c])
    ELSE Err([kind |-> "Json", version |-> 0])

\* a faulty variant of decode: plant_id is checked before device_uid
decode_plant_first(bytes) ==
    LET parsed == from_slice(bytes) IN
    IF parsed.tag = "Err" THEN parsed
    ELSE LET msg == parsed.value IN
         IF msg.version # 1
         THEN Err([kind |-> "UnsupportedVersion", version |-> msg.version])
         ELSE IF trim(msg.plant_id) = <<>>
         THEN Err([kind |-> "EmptyPlantId", version |-> 0])
         ELSE IF trim(msg.device_uid) = <<>>
         THEN Err([kind |-> "EmptyDeviceUid", version |-> 0])
         ELSE Ok(msg)

\* a faulty variant of decode: only the empty string counts as empty
decode_no_trim(bytes) ==
    LET parsed == from_slice(bytes) IN
    IF parsed.tag = "Err" THEN parsed
    ELSE LET msg == parsed.value IN
         IF msg.version # 1
         THEN Err([kind |-> "UnsupportedVersion", version |-> msg.version])
         ELSE IF msg.device_uid = <<>>
         THEN Err([kind |-> "EmptyDeviceUid", version |-> 0])
         ELSE IF msg.plant_id = <<>>
         THEN Err([kind |-> "EmptyPlantId", version |-> 0])
         ELSE Ok(msg)

decode(bytes) ==
    LET parsed == from_slice(bytes) IN
    IF parsed.tag = "Err" THEN parsed
    ELSE LET msg == parsed.value IN
         IF msg.version # 1
         THEN Err([kind |-> "UnsupportedVersion", version |-> msg.version])
         ELSE IF trim(msg.device_uid) = <<>>
         THEN Err([kind |-> "EmptyDeviceUid", version |-> 0])
         ELSE IF trim(msg.plant_id) = <<>>
         THEN Err([kind |-> "EmptyPlantId", version |-> 0])
         ELSE Ok(msg)

\* the UTF-8 byte of a character of a datagram's strings
byte_of(c) ==
    CASE c = " " -> 32
      [] c = "\t" -> 9
      [] c = "d" -> 100
      [] c = "p" -> 112
      [] c = "NUL" -> 0

\* str.as_bytes()
as_bytes(str) == [i \in 1..Len(str) |-> byte_of(str[i])]

\* byte i (1 is the least significant) of the two's complement of n, for |n| < 2^31
RECURSIVE le_byte(_, _)
le_byte(n, i) ==
    IF n < 0 THEN 255 - le_byte(-n - 1, i)
    ELSE IF i <= 3 THEN (n \div (256 ^ (i - 1))) % 256
    ELSE IF i = 4 THEN n \div 16777216
    ELSE 0

\* n.to_le_bytes() of an integer of width bytes
to_le_bytes(n, width) == [i \in 1..width |-> le_byte(n, i)]

\* what compute feeds the hasher: device_uid, 0, plant_id, 0, seq as u32 and
\* timestamp_ns as i64, both little-endian
preimage(device_uid, plant_id, seq, timestamp_ns) ==
    as_bytes(device_uid) \o <<0>> \o as_bytes(plant_id) \o <<0>>
      \o to_le_bytes(seq, 4) \o to_le_bytes(timestamp_ns, 8)

RECURSIVE absorb(_, _)
absorb(bytes, acc) ==
    IF bytes = <<>> THEN acc
    ELSE absorb(Tail(bytes), (acc * 31 + Head(bytes) + 7) % 65521)

\* Sha256::new(), update, finalize: a digest of 32 bytes that the bytes fed to the
\* hasher determine.  The compression function of the sha2 crate is not part of
\* the repository; a small mixing function stands for it, so nothing is claimed
\* here about collisions.
Sha256(bytes) ==
    LET mixed == absorb(bytes, 0) IN
    [i \in 1..32 |-> (mixed * i + (mixed \div 256) + i * i) % 256]

HexLower == <<"0", "1", "2", "3", "4", "5", "6", "7", "8", "9",
              "a", "b", "c", "d", "e", "f">>

HexUpper == <<"0", "1", "2", "3", "4", "5", "6", "7", "8", "9",
              "A", "B", "C", "D", "E", "F">>

\* a faulty variant of hex_encode: upper-case digits
hex_encode_upper(bytes) ==
    [i \in 1..(2 * Len(bytes)) |->
        IF i % 2 = 1 THEN HexUpper[(bytes[(i + 1) \div 2] \div 16) + 1]
        ELSE HexUpper[(bytes[i \div 2] % 16) + 1]]

\* hex::encode: two lower-case hexadecimal digits per byte, the high one first
hex_encode(bytes) ==
    [i \in 1..(2 * Len(bytes)) |->
        IF i % 2 = 1 THEN HexLower[(bytes[(i + 1) \div 2] \div 16) + 1]
        ELSE HexLower[(bytes[i \div 2] % 16) + 1]]

\* ingest_id::compute
compute(device_uid, plant_id, seq, timestamp_ns) ==
    hex_encode(Sha256(preimage(device_uid, plant_id, seq, timestamp_ns)))

\* the TelemetryEnvelope built from a decoded message
envelope_of(msg) ==
    [ingest_id |-> compute(msg.device_uid, msg.plant_id, msg.seq, msg.timestamp_ns),
     device_uid |-> msg.device_uid, plant_id |-> msg.plant_id,
     timestamp_ns |-> msg.timestamp_ns, seq |-> msg.seq,
     soil_moisture |-> msg.soil_moisture,
     ambient_light_lux |-> msg.ambient_light_lux,
     ambient_humidity_rh |-> msg.ambient_humidity_rh,
     ambient_temp_c |-> msg.ambient_temp_c]

\* a faulty variant of try_send: the queue has no capacity limit
try_send_unbounded(queue, envelope) == Ok(Append(queue, envelope))

\* tx.try_send(envelope): the queue with the envelope, or Full without waiting
try_send(queue, envelope) ==
    IF Len(queue) < QueueCapacity THEN Ok(Append(queue, envelope)) ELSE Err("Full")

\* datagrams handled so far
Received == receiver.enqueued + receiver.dropped + receiver.rejected

\* one turn of the receive loop on a datagram: decode, build the envelope, try_send;
\* a decode error and a full queue are logged and the loop goes on
Receive(bytes, limit) ==
    LET decoded == decode(bytes) IN
    /\ receiver.tx
    /\ Received < limit
    /\ \/ /\ decoded.tag = "Ok"
          /\ LET sent == try_send(rx_queue, envelope_of(decoded.value)) IN
             \/ /\ sent.tag = "Ok"
                /\ rx_queue' = sent.value
                /\ receiver' = [receiver EXCEPT !.enqueued = @ + 1,
                                                !.last = <<bytes, "enqueued">>]
             \/ /\ sent.tag = "Err"
                /\ receiver.dropped < MaxOverflow
                /\ rx_queue' = rx_queue
                /\ receiver' = [receiver EXCEPT !.dropped = @ + 1,
                                                !.last = <<bytes, "dropped">>]
       \/ /\ decoded.tag = "Err"
          /\ receiver.rejected < MaxRejected
          /\ rx_queue' = rx_queue
          /\ receiver' = [receiver EXCEPT
                            !.rejected = @ + 1,
                            !.last = <<bytes, decoded.error.kind>>]
    /\ UNCHANGED <<batcher, forwarded>>
    /\ UNCHANGED <<ingest_vars, eval_vars, agg_vars, lp_vars, coord_vars, fake_vars>>

\* socket.recv_from fails: the error is logged and the loop goes on
RecvError ==
    /\ receiver.tx
    /\ receiver.recv_errors < MaxFaults
    /\ receiver' = [receiver EXCEPT !.recv_errors = @ + 1]
    /\ UNCHANGED <<rx_queue, batcher, forwarded>>
    /\ UNCHANGED <<ingest_vars, eval_vars, agg_vars, lp_vars, coord_vars, fake_vars>>

\* the task that runs main is dropped (the process shuts down): the receive loop ends
\* and tx, the only sender of the queue, is dropped with it
SenderDropped ==
    /\ receiver.tx
    /\ receiver' = [receiver EXCEPT !.tx = FALSE, !.queued_at_drop = Len(rx_queue)]
    /\ UNCHANGED <<rx_queue, batcher, forwarded>>
    /\ UNCHANGED <<ingest_vars, eval_vars, agg_vars, lp_vars, coord_vars, fake_vars>>

\* a faulty variant of recv_closed: an empty queue is taken for a closed one
recv_closed_ignores_sender(queue, tx) == queue = <<>>

\* rx.recv() is None: every sender is dropped and no envelope is left in the queue
recv_closed(queue, tx) == queue = <<>> /\ ~tx

\* a faulty variant of batch_full: one envelope more than batch_size is taken
batch_full_late(batch, batch_size) == Len(batch) > batch_size

\* batch.len() >= batch_size
batch_full(batch, batch_size) == Len(batch) >= batch_size

\* a faulty variant of end_of_cycle: the RPC is started and not awaited, the next
\* cycle begins at once
end_of_cycle_spawn(b) ==
    IF b.batch = <<>>
    THEN [b EXCEPT !.pc = "recv", !.elapsed = FALSE]
    ELSE [b EXCEPT !.pc = "recv", !.in_flight = b.batch, !.batch = <<>>,
                   !.elapsed = FALSE]

\* the cycle is over: an empty batch starts the next cycle (a new deadline), any
\* other batch is taken into the request and client.ingest_telemetry is awaited
end_of_cycle(b) ==
    IF b.batch = <<>>
    THEN [b EXCEPT !.pc = "recv", !.elapsed = FALSE]
    ELSE [b EXCEPT !.pc = "rpc", !.in_flight = b.batch, !.batch = <<>>]

\* timeout_at(deadline, rx.recv()) is Ok(Some(env)): an envelope waits in the queue
\* (the receive is polled before the timer, so this can happen past the deadline)
Pull ==
    /\ batcher.pc = "recv"
    /\ rx_queue # <<>>
    /\ rx_queue' = Tail(rx_queue)
    /\ LET pushed == [batcher EXCEPT !.batch = Append(@, Head(rx_queue)),
                                     !.taken = Append(@, Head(rx_queue))] IN
       batcher' = IF batch_full(pushed.batch, pushed.batch_size)
                  THEN end_of_cycle(pushed)
                  ELSE pushed
    /\ forwarded' = IF batcher'.pc = "rpc"
                    THEN Append(forwarded, batcher'.in_flight)
                    ELSE forwarded
    /\ UNCHANGED receiver
    /\ UNCHANGED <<ingest_vars, eval_vars, agg_vars, lp_vars, coord_vars, fake_vars>>

\* timeout_at(deadline, rx.recv()) is Ok(None): batch_sender returns, and the buffer
\* is dropped with it
Closed ==
    /\ batcher.pc = "recv"
    /\ recv_closed(rx_queue, receiver.tx)
    /\ batcher' = [batcher EXCEPT !.pc = "returned", !.batch = <<>>,
                                  !.discarded = batcher.batch]
    /\ UNCHANGED <<rx_queue, receiver, forwarded>>
    /\ UNCHANGED <<ingest_vars, eval_vars, agg_vars, lp_vars, coord_vars, fake_vars>>

\* 100 ms after the cycle began: the deadline of the cycle is past
DeadlinePasses ==
    /\ batcher.pc = "recv"
    /\ ~batcher.elapsed
    /\ batcher' = [batcher EXCEPT !.elapsed = TRUE]
    /\ UNCHANGED <<rx_queue, receiver, forwarded>>
    /\ UNCHANGED <<ingest_vars, eval_vars, agg_vars, lp_vars, coord_vars, fake_vars>>

\* timeout_at(deadline, rx.recv()) is Err(Elapsed)
Timeout ==
    /\ batcher.pc = "recv"
    /\ batcher.elapsed
    /\ batcher' = end_of_cycle(batcher)
    /\ forwarded' = IF batcher'.pc = "rpc"
                    THEN Append(forwarded, batcher'.in_flight)
                    ELSE forwarded
    /\ UNCHANGED <<rx_queue, receiver>>
    /\ UNCHANGED <<ingest_vars, eval_vars, agg_vars, lp_vars, coord_vars, fake_vars>>

\* client.ingest_telemetry(req) returns Ok(resp) or Err(e); either is logged, and the
\* next cycle begins with a new buffer and a new deadline
\* a faulty variant of after_rpc: the request of a failed RPC is put back into the
\* buffer, to be sent again
after_rpc_retry(b, ok) ==
    [b EXCEPT !.pc = "recv", !.in_flight = <<>>,
              !.batch = IF ok THEN <<>> ELSE b.in_flight, !.elapsed = FALSE,
              !.last_rpc = IF ok THEN "ok" ELSE "failed"]

\* the match on the RPC's result only logs; batch = Vec::with_capacity(batch_size)
after_rpc(b, ok) ==
    [b EXCEPT !.pc = "recv", !.in_flight = <<>>, !.batch = <<>>, !.elapsed = FALSE,
              !.last_rpc = IF ok THEN "ok" ELSE "failed"]

RpcDone(ok) ==
    /\ batcher.pc = "rpc"
    /\ batcher' = after_rpc(batcher, ok)
    /\ UNCHANGED <<rx_queue, receiver, forwarded>>
    /\ UNCHANGED <<ingest_vars, eval_vars, agg_vars, lp_vars, coord_vars, fake_vars>>

\* strings of a datagram
DeviceUidStrings == { <<>>, <<" ">>, <<"d">>, <<" ", "d">> }
PlantStrings == { <<>>, <<"\t">>, <<"p">> }
Versions == {0, 1, 2}

\* every combination of a well-formed or malformed body, a version and the two ids
AllDatagrams ==
    { Datagram(wf, v, d, p, 1) :
        wf \in BOOLEAN, v \in Versions, d \in DeviceUidStrings, p \in PlantStrings }

\* one valid datagram sent over and over, and two that the decoder rejects
StallDatagrams ==
    { Datagram(TRUE, 1, <<"d">>, <<"p">>, 1),
      Datagram(FALSE, 1, <<"d">>, <<"p">>, 1),
      Datagram(TRUE, 2, <<"d">>, <<"p">>, 1) }

\* valid datagrams that differ in the fields the identifier is computed from, and in
\* a reading, which it is not computed from
IdDatagrams ==
    { [Datagram(TRUE, 1, d, <<"p">>, seq) EXCEPT !.timestamp_ns = ts] :
        d \in {<<"d">>, <<"d", "p">>}, seq \in {1, 256}, ts \in {-1, 1001} }
      \cup { [Datagram(TRUE, 1, <<"d">>, <<"p">>, 1) EXCEPT !.soil_moisture = None] }
      \cup { Datagram(TRUE, 1, <<"d", "NUL", "p">>, <<"p">>, 1),
              Datagram(TRUE, 1, <<"d">>, <<"p", "NUL", "p">>, 1) }

\* valid datagrams with different sequence numbers, and one that is rejected
RouterDatagrams ==
    { Datagram(TRUE, 1, <<"d">>, <<"p">>, seq) : seq \in 1..MaxDatagrams }
      \cup { Datagram(TRUE, 1, <<" ">>, <<"p">>, 1) }

\* main: the queue is created and batch_sender is spawned with ROUTER_BATCH_SIZE
RouterInit ==
    /\ IngestInit
    /\ amqp_chan = FALSE
    /\ EvalIdle
    /\ AggIdle
    /\ LpIdle /\ CoordIdle /\ FakeIdle
    /\ rx_queue = <<>>
    /\ receiver = [enqueued |-> 0, dropped |-> 0, rejected |-> 0, recv_errors |-> 0,
                   last |-> <<>>, tx |-> TRUE, queued_at_drop |-> 0]
    /\ batcher \in { [pc |-> "recv", batch_size |-> n, batch |-> <<>>,
                      in_flight |-> <<>>, elapsed |-> FALSE, last_rpc |-> "",
                      \* history: the envelopes taken from the queue, and the
                      \* buffer dropped when batch_sender returned
                      taken |-> <<>>, discarded |-> <<>>] :
                     n \in 0..MaxBatchSize }
    /\ forwarded = <<>>

BatchSender ==
    \/ Pull
    \/ Closed
    \/ DeadlinePasses
    \/ Timeout
    \/ \E ok \in BOOLEAN : RpcDone(ok)

\* receiver and batcher run concurrently
RouterNext ==
    \/ \E bytes \in RouterDatagrams : Receive(bytes, MaxDatagrams)
    \/ RecvError
    \/ SenderDropped
    \/ BatchSender

RouterSpec == RouterInit /\ [][RouterNext]_vars

\* the runtime polls the batcher task whenever its receive is ready, and every RPC
\* call completes
RouterFairSpec ==
    /\ RouterSpec
    /\ WF_vars(Pull)
    /\ WF_vars(Closed)
    /\ WF_vars(\E ok \in BOOLEAN : RpcDone(ok))

\* the receiver alone, on every kind of datagram
ReceiverNext ==
    \/ \E bytes \in AllDatagrams : Receive(bytes, MaxDatagrams)
    \/ RecvError

ReceiverSpec == RouterInit /\ [][ReceiverNext]_vars

\* the batcher is stalled: the receiver alone, until the queue overflows
StallNext ==
    \/ \E bytes \in StallDatagrams :
          Receive(bytes, QueueCapacity + MaxOverflow + MaxRejected)
    \/ RecvError

\* the receive loop alone, on datagrams that share or differ in the identifying fields
IdNext ==
    \/ \E bytes \in IdDatagrams : Receive(bytes, MaxDatagrams)
    \/ RecvError

\* the batcher was spawned with the largest batch size and never runs
StallInit == RouterInit /\ batcher.batch_size = MaxBatchSize

StallSpec == StallInit /\ [][StallNext]_vars

IdSpec == StallInit /\ [][IdNext]_vars

\* the n-th datagram of a device that sends valid datagrams, whose sequence number
\* stops rising after the first ones
PendingDatagram(n) ==
    Datagram(TRUE, 1, <<"d">>, <<"p">>, IF n < 2 * MaxRpcs THEN n + 1 ELSE 2 * MaxRpcs + 1)

\* receiver and batcher run concurrently, the receiver faster than the batcher: the
\* queue fills up while the batcher forwards its first batches
PendingNext ==
    \/ Receive(PendingDatagram(Received), QueueCapacity + 2 * MaxRpcs + MaxOverflow)
    \/ Len(forwarded) < MaxRpcs /\ Pull
    \/ DeadlinePasses
    \/ Timeout
    \/ \E ok \in BOOLEAN : RpcDone(ok)

PendingSpec == StallInit /\ [][PendingNext]_vars

(***************************************************************************)
(* Line protocol: InfluxTelemetrySink::write_points of the supervisor      *)
(* (telemetry_sink.rs) and to_line_protocol of influxdb-service (main.rs). *)
(* Strings are sequences of characters; the tags and the fields of a point *)
(* are lists of pairs, in the order the HashMap iterates.                  *)
(***************************************************************************)

\* s.replace(' ', "\\ ").replace(',', "\\,").replace('=', "\\=")
RECURSIVE escape_lp(_)
escape_lp(str) ==
    IF str = <<>> THEN <<>>
    ELSE (IF Head(str) \in {" ", ",", "="} THEN <<"\\", Head(str)>> ELSE <<Head(str)>>)
           \o escape_lp(Tail(str))

\* {v} of a number: its decimal digits, one token
display(n) == <<ToString(n)>>

\* the tags of both serializers: ",{k}={v}" with key and value escaped
RECURSIVE tag_section(_)
tag_section(tags) ==
    IF tags = <<>> THEN <<>>
    ELSE <<",">> \o escape_lp(tags[1][1]) \o <<"=">> \o escape_lp(tags[1][2])
           \o tag_section(Tail(tags))

\* write_points: "{sep}{k}={v}", the key as it is
RECURSIVE sink_field_section(_, _)
sink_field_section(fields, i) ==
    IF i > Len(fields) THEN <<>>
    ELSE (IF i = 1 THEN <<>> ELSE <<",">>)
           \o fields[i][1] \o <<"=">> \o display(fields[i][2])
           \o sink_field_section(fields, i + 1)

\* to_line_protocol: "{sep}{escape_lp(k)}={v}"
RECURSIVE service_field_section(_, _)
service_field_section(fields, i) ==
    IF i > Len(fields) THEN <<>>
    ELSE (IF i = 1 THEN <<>> ELSE <<",">>)
           \o escape_lp(fields[i][1]) \o <<"=">> \o display(fields[i][2])
           \o service_field_section(fields, i + 1)

\* the line of a point: measurement, tags, a space, fields, and the timestamp unless
\* it is 0
line_of(p, field_section) ==
    IF p.timestamp_ns # 0
    THEN escape_lp(p.measurement) \o tag_section(p.tags) \o <<" ">> \o field_section
           \o <<" ">> \o display(p.timestamp_ns)
    ELSE escape_lp(p.measurement) \o tag_section(p.tags) \o <<" ">> \o field_section

\* InfluxTelemetrySink::write_points, the line of one point
write_points_line(p) == line_of(p, sink_field_section(p.fields, 1))

\* to_line_protocol(pt)
to_line_protocol(pt) == line_of(pt, service_field_section(pt.fields, 1))

\* keys and values of tags and fields, with and without characters that are escaped
LpKeys == { <<"a">>, <<"a", " ", "b">>, <<"a", ",", "b">>, <<"a", "=", "b">> }
LpTags == { <<>>, << <<<<"t">>, <<"v">>>> >>, << <<<<"t", " ">>, <<"v", "=", "w">>>> >> }
LpFields ==
    { << <<k, 1>> >> : k \in LpKeys } \cup { << <<k, 1>>, <<<<"b">>, 2>> >> : k \in LpKeys }

LpPoints ==
    { [measurement |-> m, tags |-> t, fields |-> f, timestamp_ns |-> ts] :
        m \in { <<"m">>, <<"m", " ", "x">> }, t \in LpTags, f \in LpFields,
        ts \in {0, 5} }

LpInit ==
    /\ IngestInit
    /\ amqp_chan = FALSE
    /\ EvalIdle /\ AggIdle /\ RouterIdle /\ CoordIdle /\ FakeIdle
    /\ lp_point \in LpPoints
    /\ lp_lines = [sink |-> None, service |-> None]

\* the supervisor's sink serializes the point
SinkSerialize ==
    /\ lp_lines.sink = None
    /\ lp_lines' = [lp_lines EXCEPT !.sink = Some(write_points_line(lp_point))]
    /\ UNCHANGED lp_point
    /\ UNCHANGED <<ingest_vars, eval_vars, agg_vars, router_vars, coord_vars, fake_vars>>

\* influxdb-service serializes the same point
ServiceSerialize ==
    /\ lp_lines.service = None
    /\ lp_lines' = [lp_lines EXCEPT !.service = Some(to_line_protocol(lp_point))]
    /\ UNCHANGED lp_point
    /\ UNCHANGED <<ingest_vars, eval_vars, agg_vars, router_vars, coord_vars, fake_vars>>

LpNext ==
    \/ SinkSerialize
    \/ ServiceSerialize

LpSpec == LpInit /\ [][LpNext]_vars

(***************************************************************************)
(* coordinator: handlers.rs, POST /data                                    *)
(***************************************************************************)

\* what a backend answers to one call: success, a response with success = false and
\* an error text, or a failed RPC
BackendOutcomes == {"success", "refused", "rpc_error"}

StructuredRecords ==
    {None} \cup { Some([i \in 1..n |-> [table |-> "t"]]) : n \in 0..MaxRecords }

TimeSeriesPoints == { None, Some(<<[measurement |-> "m"]>>) }

\* DataRequest bodies: each part present or not
DataRequests ==
    { [structured |-> s, timeseries |-> t] : s \in StructuredRecords,
                                             t \in TimeSeriesPoints }

\* the StructuredWriteResult pushed for a record
structured_write_result(r, outcome) ==
    CASE outcome = "success" ->
            [table |-> r.table, id |-> Some("id"), success |-> TRUE, error |-> None]
      [] outcome = "refused" ->
            [table |-> r.table, id |-> None, success |-> FALSE,
             error |-> Some("refused")]
      [] outcome = "rpc_error" ->
            [table |-> r.table, id |-> None, success |-> FALSE,
             error |-> Some("status")]

\* the TimeSeriesWriteResult of the write
time_series_write_result(outcome) ==
    CASE outcome = "success" -> [success |-> TRUE, error |-> None]
      [] outcome = "refused" -> [success |-> FALSE, error |-> Some("refused")]
      [] outcome = "rpc_error" -> [success |-> FALSE, error |-> Some("status")]

\* post_data is called: 400 when the request has neither part, else both futures are
\* handed to tokio::join!
PostData(req) ==
    /\ coord.pc = "idle"
    /\ coord' =
          IF req.structured = None /\ req.timeseries = None
          THEN [coord EXCEPT
                  !.pc = "responded", !.req = req,
                  !.response = Some([status |-> 400, structured |-> None,
                                     timeseries |-> None])]
          ELSE [coord EXCEPT
                  !.pc = "join", !.req = req,
                  !.structured = [IdleWrite EXCEPT !.pc = "running"],
                  !.timeseries = [IdleWrite EXCEPT !.pc = "running"]]
    /\ UNCHANGED <<ingest_vars, eval_vars, agg_vars, router_vars, lp_vars, fake_vars>>

\* handle_structured runs to its next await or to its end: None without records, else
\* pg_client.create for the next record, and Some(results) after the last one
HandleStructured(outcome) ==
    LET me == coord.structured
        records == Unwrap(coord.req.structured)
    IN
    /\ coord.pc = "join"
    /\ me.pc = "running"
    /\ coord' =
          IF coord.req.structured = None
          THEN [coord EXCEPT !.structured = [me EXCEPT !.pc = "done", !.value = None]]
          ELSE IF Len(me.results) = Len(records)
          THEN [coord EXCEPT !.structured =
                   [me EXCEPT !.pc = "done", !.value = Some(me.results)]]
          ELSE LET r == records[Len(me.results) + 1] IN
               [coord EXCEPT
                  !.pg_calls = Append(@, [table |-> r.table, outcome |-> outcome]),
                  !.structured =
                     [me EXCEPT !.results =
                         Append(@, structured_write_result(r, outcome))]]
    /\ UNCHANGED <<ingest_vars, eval_vars, agg_vars, router_vars, lp_vars, fake_vars>>

\* handle_timeseries: None without points, else one influx_client.write and its result
HandleTimeseries(outcome) ==
    LET me == coord.timeseries IN
    /\ coord.pc = "join"
    /\ me.pc = "running"
    /\ coord' =
          IF coord.req.timeseries = None
          THEN [coord EXCEPT !.timeseries = [me EXCEPT !.pc = "done", !.value = None]]
          ELSE [coord EXCEPT
                  !.influx_calls =
                     Append(@, [points |-> Unwrap(coord.req.timeseries),
                                outcome |-> outcome]),
                  !.timeseries =
                     [me EXCEPT !.pc = "done",
                                !.value = Some(time_series_write_result(outcome))]]
    /\ UNCHANGED <<ingest_vars, eval_vars, agg_vars, router_vars, lp_vars, fake_vars>>

\* a faulty variant of join_ready: the first future to finish ends the wait
join_ready_first(structured, timeseries) ==
    structured.pc = "done" \/ timeseries.pc = "done"

\* tokio::join! returns when both futures have returned
join_ready(structured, timeseries) ==
    structured.pc = "done" /\ timeseries.pc = "done"

\* (StatusCode::OK, Json(DataResponse { structured, timeseries }))
DataResponded ==
    /\ coord.pc = "join"
    /\ join_ready(coord.structured, coord.timeseries)
    /\ coord' = [coord EXCEPT
          !.pc = "responded",
          !.response = Some([status |-> 200, structured |-> coord.structured.value,
                             timeseries |-> coord.timeseries.value])]
    /\ UNCHANGED <<ingest_vars, eval_vars, agg_vars, router_vars, lp_vars, fake_vars>>

CoordInit ==
    /\ IngestInit
    /\ amqp_chan = FALSE
    /\ EvalIdle /\ AggIdle /\ RouterIdle /\ LpIdle /\ CoordIdle /\ FakeIdle

CoordNext ==
    \/ \E req \in DataRequests : PostData(req)
    \/ \E outcome \in BackendOutcomes : HandleStructured(outcome)
    \/ \E outcome \in BackendOutcomes : HandleTimeseries(outcome)
    \/ DataResponded

CoordSpec == CoordInit /\ [][CoordNext]_vars

(***************************************************************************)
(* telemetry_sink.rs: FakeTelemetrySink, an Arc<Mutex<Vec<TelemetryPoint>>> *)
(* shared by callers that run concurrently                                 *)
(***************************************************************************)

\* the k-th point handed to the sink in a behaviour
TelemetryPoint(k) ==
    [measurement |-> "plant_telemetry", timestamp_ns |-> k]

\* a faulty variant of lock_free: the buffer is entered whoever holds the mutex
lock_free_always(mutex) == TRUE

\* Mutex::lock() returns once nobody holds the mutex
lock_free(mutex) == mutex = None

\* a task calls write_points(points), snapshot() or drain() on its clone of the sink
SinkCall(c, op, n) ==
    /\ fake.callers[c].pc = "idle"
    /\ fake.calls < MaxSinkCalls
    /\ fake' = [fake EXCEPT
          !.calls = @ + 1,
          !.next = @ + n,
          !.callers[c] =
              [pc |-> "lock", op |-> op, points |-> <<>>,
               rest |-> [i \in 1..n |-> TelemetryPoint(fake.next + i)]]]
    /\ UNCHANGED <<ingest_vars, eval_vars, agg_vars, router_vars, lp_vars, coord_vars>>

WritePoints(c, n) == SinkCall(c, "write_points", n)

CallSnapshot(c) == SinkCall(c, "snapshot", 0)

CallDrain(c) == SinkCall(c, "drain", 0)

\* self.points.lock().unwrap(): the guard lives until the end of the statement
Lock(c) ==
    /\ fake.callers[c].pc = "lock"
    /\ lock_free(fake.mutex)
    /\ fake' = [fake EXCEPT !.mutex = Some(c), !.callers[c].pc = "locked"]
    /\ UNCHANGED <<ingest_vars, eval_vars, agg_vars, router_vars, lp_vars, coord_vars>>

\* .extend(points): the points are pushed one after another
Extend(c) ==
    LET me == fake.callers[c] IN
    /\ me.pc = "locked" /\ me.op = "write_points"
    /\ me.rest # <<>>
    /\ fake' = [fake EXCEPT
          !.points = Append(@, Head(me.rest)),
          !.callers[c].rest = Tail(me.rest),
          !.callers[c].points = Append(@, Head(me.rest))]
    /\ UNCHANGED <<ingest_vars, eval_vars, agg_vars, router_vars, lp_vars, coord_vars>>

\* the call returns: the guard is dropped, and the call and its value are recorded
SinkReturn(c, buffer, value) ==
    /\ fake' = [fake EXCEPT
          !.points = buffer,
          !.mutex = None,
          !.callers[c] = IdleCaller,
          !.log = Append(@, [op |-> fake.callers[c].op, by |-> c, value |-> value])]
    /\ UNCHANGED <<ingest_vars, eval_vars, agg_vars, router_vars, lp_vars, coord_vars>>

\* write_points returns Ok(()) when all its points are pushed
WritePointsReturn(c) ==
    LET me == fake.callers[c] IN
    /\ me.pc = "locked" /\ me.op = "write_points"
    /\ me.rest = <<>>
    /\ SinkReturn(c, fake.points, me.points)

\* .clone(): snapshot returns a copy of the buffer
Snapshot(c) ==
    /\ fake.callers[c].pc = "locked" /\ fake.callers[c].op = "snapshot"
    /\ SinkReturn(c, fake.points, fake.points)

\* .drain(..).collect(): drain returns the content of the buffer and empties it
Drain(c) ==
    /\ fake.callers[c].pc = "locked" /\ fake.callers[c].op = "drain"
    /\ SinkReturn(c, <<>>, fake.points)

\* a fresh sink; the supervisor is idle and has no channel
FakeInit == Init /\ ~amqp_chan

FakeNext ==
    \E c \in SinkCallers :
        \/ \E n \in 0..MaxPoints : WritePoints(c, n)
        \/ CallSnapshot(c)
        \/ CallDrain(c)
        \/ Lock(c)
        \/ Extend(c)
        \/ WritePointsReturn(c)
        \/ Snapshot(c)
        \/ Drain(c)

FakeSpec == FakeInit /\ [][FakeNext]_vars

(***************************************************************************)
(* Properties                                                              *)
(***************************************************************************)

InCall(h) == handlers[h].pc \notin {"idle", "loop"}

\* the last process_envelope call of handler h has returned
Returned(h) == handlers[h].pc \in {"idle", "loop"} /\ handlers[h].ret # ""

\* handler h returns from process_envelope in this step
Returns(h) == InCall(h) /\ handlers'[h].pc = "loop"

LedgerRows(ingest_id) == { r \in telemetry_ingest_ledger : r.ingest_id = ingest_id }

ValidUuid(env) == env.plant_id \in Uuids

ActivePlant(env) == \E p \in plant : p.id = env.plant_id /\ p.is_active

StateRows(plant_id) == { r \in plant_current_state : r.plant_id = plant_id }

\* C1: a first processing of an envelope of an active plant, with no SQL error,
\* returns Ok and leaves exactly one ledger row for its ingest_id, with result 'OK'
\* (calls run one after another).
C1_FirstProcessingLedgerOk ==
    \A h \in Handlers :
        LET me == handlers[h] IN
        (/\ Returned(h)
         /\ ValidUuid(me.env) /\ ActivePlant(me.env)
         /\ ~me.seen_before
         /\ ~me.failed)
        => /\ me.ret = "Ok"
           /\ Cardinality(LedgerRows(me.env.ingest_id)) = 1
           /\ \A r \in LedgerRows(me.env.ingest_id) : r.result = "OK"

C1_Witness ==
    \E h \in Handlers :
        LET me == handlers[h] IN
        /\ Returned(h) /\ ValidUuid(me.env) /\ ActivePlant(me.env)
        /\ ~me.seen_before /\ ~me.failed
        /\ me.ret = "Ok"
        /\ LedgerRows(me.env.ingest_id) # {}
        /\ nfaults > 0

\* the columns of the device table other than last_seen_at
DeviceExceptLastSeen(dev) ==
    { [device_uid |-> d.device_uid, last_ingest_id |-> d.last_ingest_id] : d \in dev }

\* a step of a call leaves everything but device.last_seen_at as it was
WritesNothingButLastSeen ==
    /\ plant_current_state' = plant_current_state
    /\ ticker_event' = ticker_event
    /\ telemetry_ingest_ledger' = telemetry_ingest_ledger
    /\ sink_points' = sink_points
    /\ bus' = bus
    /\ DeviceExceptLastSeen(device') = DeviceExceptLastSeen(device)

\* C2 as stated: once a ledger row for X exists, every later call on an envelope with
\* ingest_id X returns (Duplicate, None) and writes nothing but device.last_seen_at
\* (calls run one after another).
C2_EveryLaterCallIsDuplicate ==
    [][ \A h \in Handlers :
          (InCall(h) /\ handlers[h].seen_before)
          => /\ WritesNothingButLastSeen
             /\ Returns(h) => /\ handlers'[h].ret = "Duplicate"
                              /\ handlers'[h].ret_change = None ]_vars

\* C2 as amended: once a ledger row for X exists, every later call on an envelope with
\* ingest_id X writes nothing but device.last_seen_at, and it returns (Duplicate, None)
\* when its plant_id parses as a UUID and its ledger probe succeeds.
C2_LaterCallWritesNothing ==
    [][ \A h \in Handlers :
          (InCall(h) /\ handlers[h].seen_before)
          => /\ WritesNothingButLastSeen
             /\ (Returns(h) /\ ValidUuid(handlers[h].env) /\ ~handlers'[h].failed)
                => /\ handlers'[h].ret = "Duplicate"
                   /\ handlers'[h].ret_change = None ]_vars

C2_Witness ==
    \E h \in Handlers :
        LET me == handlers[h] IN
        /\ Returned(h) /\ me.seen_before /\ me.ret = "Duplicate"
        /\ \E d \in device : d.device_uid = me.env.device_uid
                             /\ d.last_seen_at = NOW
                             /\ d.last_ingest_id # Some(me.env.ingest_id)

\* C3: of two handlers that process envelopes with the same ingest_id at the same
\* time, at most one returns Ok (the other returns Duplicate).
C3_AtMostOneOkPerIngestId ==
    \A h1, h2 \in Handlers :
        (/\ h1 # h2
         /\ Returned(h1) /\ Returned(h2)
         /\ handlers[h1].env.ingest_id = handlers[h2].env.ingest_id)
        => ~(handlers[h1].ret = "Ok" /\ handlers[h2].ret = "Ok")

\* C4: the ledger holds at most one row per ingest_id, and no step deletes a ledger
\* row or changes its result, concurrent handlers included.
C4_LedgerRowsPermanent ==
    [][ /\ \A r \in telemetry_ingest_ledger : r \in telemetry_ingest_ledger'
        /\ \A r1, r2 \in telemetry_ingest_ledger' :
              r1.ingest_id = r2.ingest_id => r1 = r2 ]_vars

\* a second insert for an ingest_id met ON CONFLICT DO NOTHING: the row written first,
\* 'ERROR', is still there after a handler returned Ok for the same ingest_id
C4_Witness ==
    \E h \in Handlers :
        /\ Returned(h) /\ handlers[h].ret = "Ok"
        /\ \E r \in LedgerRows(handlers[h].env.ingest_id) : r.result = "ERROR"

\* handler h commits its plant_current_state upsert in this step
Upserts(h) == handlers[h].pc = "upsert" /\ handlers'[h].pc = "device"

\* C5: the state upsert of envelope E leaves a reading column unchanged when the
\* reading is null in E, and sets it to E's value when it is not.
C5_CoalescePreservesNulls ==
    [][ \A h \in Handlers :
          Upserts(h) =>
            LET env == handlers[h].env
                old == StateRows(env.plant_id)
                new == { r \in plant_current_state' : r.plant_id = env.plant_id }
            IN /\ Cardinality(new) = 1
               /\ \A r \in new : \A R \in MetricNames :
                     /\ IsSome(env[R]) => r[R] = env[R]
                     /\ env[R] = None =>
                          r[R] = IF old = {} THEN None ELSE Unwrap(old)[R] ]_vars

\* a null reading was applied over a stored value, and a non-null one replaced another
C5_Witness ==
    \E h \in Handlers :
        LET env == handlers[h].env IN
        /\ handlers[h].pc = "device"
        /\ handlers[h].sev_before # None
        /\ env.soil_moisture = None
        /\ \E r \in StateRows(env.plant_id) :
              r.soil_moisture # None /\ r.ambient_temp_c = env.ambient_temp_c
                                     /\ r.ambient_temp_c # None

\* C6: the stored severity of a plant is the overall severity of the envelope whose
\* upsert was committed last: an upsert sets it to that envelope's overall severity
\* and no other step changes or removes it, under any interleaving.
C6_LastUpsertDecidesSeverity ==
    [][ /\ \A h \in Handlers :
              Upserts(h) =>
                \E r \in plant_current_state' :
                    /\ r.plant_id = handlers[h].env.plant_id
                    /\ r.severity = as_str(handlers[h].overall_severity)
        /\ (\A h \in Handlers : ~Upserts(h)) =>
              \A r \in plant_current_state :
                 \E q \in plant_current_state' :
                    q.plant_id = r.plant_id /\ q.severity = r.severity
        /\ \A r1, r2 \in plant_current_state' : r1.plant_id = r2.plant_id => r1 = r2
      ]_vars

\* two handlers applied envelopes of different severity to one plant, and the one
\* that read the previous severity first committed its upsert last
C6_Witness ==
    \E h1, h2 \in Handlers :
        /\ h1 # h2
        /\ handlers[h1].upserted /\ handlers[h2].upserted
        /\ handlers[h1].env.plant_id = handlers[h2].env.plant_id
        /\ handlers[h1].overall_severity # handlers[h2].overall_severity
        /\ handlers[h1].sev_before = None /\ handlers[h2].sev_before # None
        /\ from_str(Unwrap(handlers[h2].sev_before)) # handlers[h2].prev_severity
        /\ \E r \in StateRows(handlers[h2].env.plant_id) :
              /\ r.last_ingest_id = handlers[h2].env.ingest_id
              /\ r.severity = as_str(handlers[h2].overall_severity)

\* the severity a call read from plant_current_state, Normal without a state row
PreviousRead(h) ==
    IF handlers[h].read_severity = None THEN Normal
    ELSE from_str(Unwrap(handlers[h].read_severity))

\* C7: a call that returns Ok returns Some(StatusChange) exactly when the overall
\* severity of its envelope differs from the previous severity it read from
\* plant_current_state before its upsert (Normal without a state row), and the
\* StatusChange carries that previous severity, the overall severity and the
\* envelope timestamp.
C7_StatusChangeIffSeverityDiffers ==
    \A h \in Handlers :
        LET me == handlers[h] IN
        (Returned(h) /\ me.ret = "Ok")
        => /\ me.upserted
           /\ IsSome(me.ret_change) <=> me.overall_severity # PreviousRead(h)
           /\ \A c \in me.ret_change :
                 /\ c.plant_id = me.env.plant_id
                 /\ c.prev_severity = PreviousRead(h)
                 /\ c.new_severity = me.overall_severity
                 /\ c.occurred_at_ns = me.env.timestamp_ns

\* a change from a stored WARN or CRITICAL was returned, and an envelope that met its
\* own severity stored returned none
C7_Witness ==
    \E h1, h2 \in Handlers :
        /\ Returned(h1) /\ handlers[h1].ret = "Ok"
        /\ handlers[h1].read_severity # None /\ PreviousRead(h1) # Normal
        /\ \E c \in handlers[h1].ret_change : c.prev_severity = PreviousRead(h1)
        /\ Returned(h2) /\ handlers[h2].ret = "Ok"
        /\ handlers[h2].read_severity = None
        /\ handlers[h2].overall_severity # Normal

\* the StatusChanges returned so far, as (plant, previous, new) in canonical strings
EmittedTransitions ==
    [i \in 1..Len(emitted_changes) |->
        <<emitted_changes[i].plant_id, as_str(emitted_changes[i].prev_severity),
          as_str(emitted_changes[i].new_severity)>>]

\* C8: with calls run one after another and no SQL failure, the changes of a plant's
\* stored severity and the StatusChanges returned are the same list: one StatusChange
\* (s, t) per change from s to t, none for an envelope that leaves it unchanged.
C8_OneStatusChangePerTransition ==
    ((\A h \in Handlers : ~InCall(h)) /\ sql_errors = 0)
    => EmittedTransitions = severity_log

\* two transitions, the second one back to NORMAL, each reported once
C8_Witness ==
    /\ \A h \in Handlers : ~InCall(h)
    /\ sql_errors = 0
    /\ Len(severity_log) = 2
    /\ severity_log[2][3] = "NORMAL"
    /\ EmittedTransitions = severity_log

\* the severity the specification gives for a value and a threshold
SpecifiedSeverity(value, t) ==
    IF IsSome(t.crit_min) /\ value < Unwrap(t.crit_min) THEN Critical
    ELSE IF IsSome(t.crit_max) /\ value > Unwrap(t.crit_max) THEN Critical
    ELSE IF IsSome(t.warn_min) /\ value < Unwrap(t.warn_min) THEN Warn
    ELSE IF IsSome(t.warn_max) /\ value > Unwrap(t.warn_max) THEN Warn
    ELSE Normal

\* the bounds of threshold t that value lies strictly outside of
Breached(value, t) ==
    { b \in {"crit_min", "warn_min"} : IsSome(t[b]) /\ value < Unwrap(t[b]) }
      \cup { b \in {"crit_max", "warn_max"} : IsSome(t[b]) /\ value > Unwrap(t[b]) }

\* C9: evaluate_metric follows the specified cascade for every subset of bounds, and
\* comparisons are strict: a value that breaches no bound is Normal, one that
\* breaches no critical bound is not Critical, whatever bounds it is equal to.
C9_EvaluateMetricCascade ==
    \A r \in ev_results :
        /\ r.severity = SpecifiedSeverity(r.value, ev_threshold)
        /\ Breached(r.value, ev_threshold) = {} => r.severity = Normal
        /\ Breached(r.value, ev_threshold) \cap {"crit_min", "crit_max"} = {}
              => r.severity # Critical

\* a value equal to crit_min and below warn_min was evaluated: Warn, not Critical
C9_Witness ==
    \E r \in ev_results :
        /\ ev_threshold.crit_min = Some(r.value)
        /\ \E w \in ev_threshold.warn_min : r.value < w
        /\ r.severity = Warn

FullyNested(t) ==
    /\ IsSome(t.crit_min) /\ IsSome(t.warn_min) /\ IsSome(t.warn_max) /\ IsSome(t.crit_max)
    /\ Unwrap(t.crit_min) <= Unwrap(t.warn_min)
    /\ Unwrap(t.warn_min) <= Unwrap(t.warn_max)
    /\ Unwrap(t.warn_max) <= Unwrap(t.crit_max)

\* C10: for a fully nested threshold the severity does not decrease with the distance
\* from the warn band, below warn_min and above warn_max.
C10_MonotoneAwayFromWarnBand ==
    FullyNested(ev_threshold) =>
        \A r1, r2 \in ev_results :
            /\ (r1.value <= r2.value /\ r2.value <= Unwrap(ev_threshold.warn_min))
                  => r1.severity >= r2.severity
            /\ (Unwrap(ev_threshold.warn_max) <= r1.value /\ r1.value <= r2.value)
                  => r1.severity <= r2.severity

\* all three severities were met on one side of a fully nested threshold
C10_Witness ==
    /\ FullyNested(ev_threshold)
    /\ \E r1, r2, r3 \in ev_results :
          /\ r1.value < r2.value /\ r2.value < r3.value
          /\ r3.value <= Unwrap(ev_threshold.warn_min)
          /\ r1.severity = Critical /\ r2.severity = Warn /\ r3.severity = Normal

\* the elements of a list of severities
Range(list) == { list[i] : i \in 1..Len(list) }

\* the greatest severity of a set under Normal < Warn < Critical, Normal when empty
MaxSeverity(set) ==
    IF set = {} THEN Normal ELSE CHOOSE s \in set : \A t \in set : t <= s

\* C11: aggregate_severity returns the maximum of its inputs under
\* Normal < Warn < Critical, whatever their order and multiplicity, and Normal for
\* the empty collection.
C11_AggregateIsMaximum ==
    /\ \A r \in agg_results :
          /\ r.result = MaxSeverity(Range(r.input))
          /\ r.input = <<>> => r.result = Normal
    /\ \A r1, r2 \in agg_results :
          Range(r1.input) = Range(r2.input) => r1.result = r2.result

\* two aggregations of the same severities, in another order and with a repetition,
\* the greatest severity not being the last one
C11_Witness ==
    \E r1, r2 \in agg_results :
        /\ Range(r1.input) = Range(r2.input)
        /\ Len(r1.input) < Len(r2.input)
        /\ Cardinality(Range(r1.input)) > 1
        /\ r2.input[Len(r2.input)] # Critical
        /\ r1.result = Critical /\ r2.result = Critical

\* a step leaves every table, the sink and the bus as they were
WritesNothing ==
    /\ telemetry_ingest_ledger' = telemetry_ingest_ledger
    /\ plant' = plant
    /\ plant_current_state' = plant_current_state
    /\ device' = device
    /\ ticker_event' = ticker_event
    /\ sink_points' = sink_points
    /\ bus' = bus

\* C12: a call on an envelope whose plant_id is no UUID returns (Error, None) in one
\* step that writes no table, sink or bus, ledger included; it returns Error, never
\* Duplicate, on every replay, whatever the ledger holds.
C12_InvalidUuidIsErrorWithoutEffect ==
    /\ [](\A h \in Handlers :
            (Returned(h) /\ ~ValidUuid(handlers[h].env))
            => /\ handlers[h].ret = "Error"
               /\ handlers[h].ret_change = None)
    /\ [][ \A h \in Handlers :
             (InCall(h) /\ ~ValidUuid(handlers[h].env) /\ handlers'[h] # handlers[h])
             => /\ WritesNothing
                /\ Returns(h) ]_vars

\* the same malformed envelope was processed twice, Error both times, no ledger row
C12_Witness ==
    \E h \in Handlers :
        LET me == handlers[h] IN
        /\ Returned(h) /\ ~ValidUuid(me.env)
        /\ Len(me.req) = 2 /\ me.req[1] = me.req[2]
        /\ me.results[1].result = 2 /\ me.results[2].result = 2
        /\ LedgerRows(me.env.ingest_id) = {}

\* C13: a call on an envelope with a valid UUID, no ledger row and a plant that does
\* not exist or is not active writes nothing to the sink, plant_current_state, device,
\* ticker_event or the bus, and (no SQL error) inserts the ledger row 'ERROR' and
\* returns (Error, None).
C13_UnknownPlantLedgerError ==
    /\ [](\A h \in Handlers :
            LET me == handlers[h] IN
            (/\ Returned(h)
             /\ ValidUuid(me.env) /\ ~ActivePlant(me.env)
             /\ ~me.seen_before /\ ~me.failed)
            => /\ me.ret = "Error"
               /\ me.ret_change = None
               /\ Cardinality(LedgerRows(me.env.ingest_id)) = 1
               /\ \A r \in LedgerRows(me.env.ingest_id) : r.result = "ERROR")
    /\ [][ \A h \in Handlers :
             LET me == handlers[h] IN
             (/\ InCall(h)
              /\ ValidUuid(me.env) /\ ~ActivePlant(me.env) /\ ~me.seen_before)
             => /\ sink_points' = sink_points
                /\ plant_current_state' = plant_current_state
                /\ device' = device
                /\ ticker_event' = ticker_event
                /\ bus' = bus ]_vars

\* an envelope of the inactive plant and one of a plant that does not exist were both
\* rejected, each with its 'ERROR' ledger row
C13_Witness ==
    \E h \in Handlers :
        LET me == handlers[h] IN
        /\ Returned(h) /\ Len(me.req) = 2
        /\ me.req[1].plant_id = "Q" /\ me.req[2].plant_id = "R"
        /\ me.results[1].result = 2 /\ me.results[2].result = 2
        /\ \A i \in 1..2 : \E r \in LedgerRows(me.req[i].ingest_id) : r.result = "ERROR"
        /\ plant_current_state = {} /\ ticker_event = <<>> /\ sink_points = <<>>

\* the device table after UPDATE device SET last_seen_at = at WHERE device_uid = uid
LastSeenSet(dev, uid, at) ==
    { [device_uid |-> d.device_uid,
       last_seen_at |-> IF d.device_uid = uid THEN at ELSE d.last_seen_at,
       last_ingest_id |-> d.last_ingest_id] : d \in dev }

\* C14: the step of the duplicate path returns (Duplicate, None) whether the device
\* update succeeds, fails or matches no row; the device table is either untouched or
\* has last_seen_at = NOW() on the envelope's device, and last_ingest_id never changes.
C14_DuplicatePathBestEffort ==
    [][ \A h \in Handlers :
          (handlers[h].pc = "dup" /\ handlers'[h] # handlers[h])
          => /\ Returns(h)
             /\ handlers'[h].ret = "Duplicate"
             /\ handlers'[h].ret_change = None
             /\ \/ device' = device
                \/ device' = LastSeenSet(device, handlers[h].env.device_uid, NOW)
             /\ DeviceExceptLastSeen(device') = DeviceExceptLastSeen(device) ]_vars

\* a duplicate of an envelope of device d1 was answered Duplicate although the update
\* of d1 failed: last_seen_at is still the time of the first call
C14_Witness ==
    \E h \in Handlers :
        LET me == handlers[h] IN
        /\ Returned(h) /\ me.ret = "Duplicate"
        /\ nfaults > 0 /\ sql_errors = 0
        /\ \E d \in device : /\ d.device_uid = me.env.device_uid
                             /\ IsSome(d.last_ingest_id)
                             /\ d.last_seen_at # NOW

\* the StatusChange of a call, from what it read and computed
ExpectedChange(h) ==
    LET me == handlers[h] IN
    IF me.overall_severity # PreviousRead(h)
    THEN Some([plant_id |-> me.env.plant_id, prev_severity |-> PreviousRead(h),
               new_severity |-> me.overall_severity,
               occurred_at_ns |-> me.env.timestamp_ns])
    ELSE None

\* C15: with every SQL statement succeeding, a first processing of an envelope of an
\* active plant upserts the state, updates the device, inserts the ticker event,
\* writes the 'OK' ledger row and returns Ok with the StatusChange of what it read,
\* whether or not the sink write or the bus publish failed.
C15_SinkAndBusFailuresNeverAbort ==
    \A h \in Handlers :
        LET me == handlers[h] IN
        (/\ Returned(h)
         /\ ValidUuid(me.env) /\ ActivePlant(me.env)
         /\ ~me.seen_before /\ ~me.failed)
        => /\ me.ret = "Ok"
           /\ me.upserted
           /\ \E r \in StateRows(me.env.plant_id) :
                 r.last_ingest_id = me.env.ingest_id
           /\ \A d \in device :
                 d.device_uid = me.env.device_uid
                 => d.last_ingest_id = Some(me.env.ingest_id)
           /\ \E i \in 1..Len(ticker_event) :
                 ticker_event[i].payload.ingest_id = me.env.ingest_id
           /\ \E r \in LedgerRows(me.env.ingest_id) : r.result = "OK"
           /\ me.ret_change = ExpectedChange(h)

\* a call whose sink write failed returned Ok with a StatusChange
C15_Witness ==
    \E h \in Handlers :
        LET me == handlers[h] IN
        /\ Returned(h) /\ me.ret = "Ok" /\ ~me.seen_before
        /\ present_metrics(me.env) # {}
        /\ sink_points = <<>>
        /\ nfaults > 0 /\ sql_errors = 0
        /\ IsSome(me.ret_change)

\* a call whose bus publish failed returned Ok with a StatusChange
C15_PublishFailed ==
    \E h \in Handlers :
        LET me == handlers[h] IN
        /\ Returned(h) /\ me.ret = "Ok" /\ ~me.seen_before
        /\ amqp_chan /\ bus = <<>>
        /\ nfaults > 0 /\ sql_errors = 0
        /\ IsSome(me.ret_change)

\* the result of an envelope processed without SQL error when the ledger holds the
\* ingest_ids `ids`: Ok = 0, Duplicate = 1, Error = 2
CodeWithout(env, ids) ==
    IF ~ValidUuid(env) THEN 2
    ELSE IF env.ingest_id \in ids THEN 1
    ELSE IF ~ActivePlant(env) THEN 2
    ELSE 0

\* the results of the envelopes that did not fail are those of the request without
\* the failing envelopes; a failing envelope has result Error and an error message
RECURSIVE AsIfFailuresAbsent(_, _, _, _)
AsIfFailuresAbsent(req, results, i, ids) ==
    IF i > Len(results) THEN TRUE
    ELSE IF results[i].error # ""
         THEN /\ results[i].result = 2
              /\ AsIfFailuresAbsent(req, results, i + 1, ids)
         ELSE /\ results[i].result = CodeWithout(req[i], ids)
              /\ AsIfFailuresAbsent(req, results, i + 1,
                    IF ValidUuid(req[i]) THEN ids \cup {req[i].ingest_id} ELSE ids)

\* C16: an SQL error on one envelope gives that envelope an ItemResult Error with a
\* non-empty error; every other envelope of the batch is processed and gets the
\* result it would get without the failing envelope (handlers run one at a time).
C16_FailureDoesNotPoisonBatch ==
    \A h \in Handlers :
        LET me == handlers[h] IN
        /\ AsIfFailuresAbsent(me.req, me.results, 1, me.ledger_at_start)
        /\ Returned(h) => (me.failed <=> me.results[Len(me.results)].error # "")
        /\ ~InCall(h) => Len(me.results) = Len(me.req)

\* the response of a batch whose first envelope failed and whose second envelope, the
\* same one again, was processed and returned Ok
C16_Witness ==
    \E h \in Handlers :
        LET me == handlers[h] IN
        /\ me.pc = "idle" /\ Len(me.req) = 2
        /\ me.req[1] = me.req[2]
        /\ me.results[1].error # "" /\ me.results[1].result = 2
        /\ me.results[2].error = "" /\ me.results[2].result = 0

\* C17: the results of a response are aligned with the envelopes of the request: one
\* entry per envelope processed, in input order, entry i with the ingest_id of
\* envelope i, concurrent handlers included.
C17_ResultsAlignedWithInput ==
    \A h \in Handlers :
        LET me == handlers[h] IN
        /\ Len(me.results) = IF InCall(h) THEN Len(me.req) - 1 ELSE Len(me.req)
        /\ \A i \in 1..Len(me.results) : me.results[i].ingest_id = me.req[i].ingest_id

\* a response to two envelopes with different ingest_ids and different results
C17_Witness ==
    \E h \in Handlers :
        LET me == handlers[h] IN
        /\ me.pc = "idle" /\ Len(me.req) = 2
        /\ me.req[1].ingest_id # me.req[2].ingest_id
        /\ me.results[1].result # me.results[2].result
        /\ me.results[2].result # 0

\* C18: the queue never holds more than 1024 envelopes; an envelope offered to a
\* full queue is dropped in the same step, which leaves the queue as it is, and the
\* receiver goes on; with the batcher stalled, every valid datagram is enqueued until
\* 1024 are, so 1025 valid datagrams give 1024 enqueued and 1 dropped.
C18_QueueBoundedDropOnOverflow ==
    /\ [](/\ Len(rx_queue) <= 1024
          /\ receiver.enqueued = Len(rx_queue)
          /\ receiver.dropped > 0 => receiver.enqueued = 1024
          /\ receiver.enqueued + receiver.dropped = 1025
             => receiver.enqueued = 1024 /\ receiver.dropped = 1)
    /\ [][ /\ receiver'.dropped # receiver.dropped
              => /\ Len(rx_queue) = 1024
                 /\ rx_queue' = rx_queue
                 /\ receiver'.dropped = receiver.dropped + 1
           /\ (Len(rx_queue) = 1024 /\ receiver' # receiver)
              => rx_queue' = rx_queue ]_vars

\* the queue is full and two datagrams in a row were dropped: after the first drop the
\* receiver took the next datagram
C18_Witness ==
    /\ Len(rx_queue) = 1024
    /\ receiver.enqueued = 1024
    /\ receiver.dropped >= 2

\* a string of a datagram is empty or holds only whitespace
Blank(str) == \A i \in 1..Len(str) : str[i] \in {" ", "\t"}

\* what the receiver does with a datagram when the queue has room
ExpectedOutcome(bytes) ==
    IF ~bytes.well_formed THEN "Json"
    ELSE IF bytes.version # 1 THEN "UnsupportedVersion"
    ELSE IF Blank(bytes.device_uid) THEN "EmptyDeviceUid"
    ELSE IF Blank(bytes.plant_id) THEN "EmptyPlantId"
    ELSE "enqueued"

\* C19: decode rejects a datagram whose JSON is malformed, whose version is not 1,
\* whose device_uid is blank or whose plant_id is blank, reporting the first of these
\* in that order, and accepts every other datagram; a rejected datagram leaves the
\* queue as it is, an accepted one is enqueued.
C19_DecodeRejectsInOrder ==
    /\ [](receiver.last # <<>> => receiver.last[2] = ExpectedOutcome(receiver.last[1]))
    /\ [][ /\ receiver'.rejected # receiver.rejected => rx_queue' = rx_queue
           /\ receiver'.enqueued # receiver.enqueued
              => /\ Len(rx_queue') = Len(rx_queue) + 1
                 /\ ExpectedOutcome(receiver'.last[1]) = "enqueued"
                 /\ rx_queue'[Len(rx_queue')].device_uid = receiver'.last[1].device_uid
                 /\ rx_queue'[Len(rx_queue')].plant_id = receiver'.last[1].plant_id ]_vars

\* after two rejected datagrams the receiver enqueued a datagram whose device_uid
\* begins with whitespace
C19_Witness ==
    /\ receiver.rejected >= 2
    /\ receiver.last # <<>>
    /\ receiver.last[2] = "enqueued"
    /\ receiver.last[1].device_uid = <<" ", "d">>
    /\ Len(rx_queue) = 1

\* the cycle of the batcher ends in this step: a request is sent, or the next cycle
\* begins without one
CycleEnds ==
    /\ batcher.pc = "recv"
    /\ \/ batcher'.pc = "rpc"
       \/ batcher.elapsed /\ ~batcher'.elapsed

RECURSIVE Flatten(_)
Flatten(batches) ==
    IF batches = <<>> THEN <<>> ELSE Head(batches) \o Flatten(Tail(batches))

\* every envelope the receiver has enqueued that is still in the router or was sent:
\* the batches sent, then the buffer, then the queue
Pipeline == Flatten(forwarded) \o batcher.batch \o rx_queue

\* the forwarding RPC returns in this step
RpcReturns == batcher.pc = "rpc" /\ batcher'.pc # "rpc"

\* C21: when the forwarding RPC of a batch fails, the batcher goes on with an empty
\* buffer and sends nothing again: the step that ends a failed RPC leaves the queue
\* and the list of sent batches as they are, and no step of the running batcher changes the
\* envelopes sent, buffered and queued, but for an envelope the receiver enqueues.
C21_FailedBatchNotRetried ==
    [][ /\ RpcReturns
           => /\ batcher'.batch = <<>> /\ batcher'.in_flight = <<>>
              /\ forwarded' = forwarded /\ rx_queue' = rx_queue
        /\ \/ Pipeline' = Pipeline
           \/ batcher'.pc = "returned"
           \/ /\ receiver'.enqueued = receiver.enqueued + 1
              /\ Pipeline' = Append(Pipeline, rx_queue'[Len(rx_queue')]) ]_vars

\* the RPC of the first batch failed, and a second batch, of other envelopes, is
\* in flight
C21_Witness ==
    /\ Len(forwarded) = 2
    /\ batcher.pc = "rpc" /\ batcher.last_rpc = "failed"
    /\ batcher.in_flight = forwarded[2]
    /\ \A i \in 1..Len(forwarded[1]) : \A j \in 1..Len(forwarded[2]) :
          forwarded[1][i] # forwarded[2][j]

\* C22: batch_sender never returns while the sender of the queue exists, and once the
\* sender is dropped it returns after the envelopes left in the queue have been
\* received (every RPC call completes).
C22_ReturnsWhenQueueClosed ==
    /\ [](batcher.pc = "returned" => (~receiver.tx /\ rx_queue = <<>>))
    /\ (~receiver.tx) ~> (batcher.pc = "returned")

\* the sender was dropped with envelopes in the queue, they were sent on, and
\* batch_sender has returned
C22_Witness ==
    /\ batcher.pc = "returned"
    /\ receiver.queued_at_drop >= 2
    /\ Len(Flatten(forwarded)) = receiver.enqueued

\* the fields of an envelope that ingest_id::compute is given
IdentifyingFields(e) == <<e.device_uid, e.plant_id, e.seq, e.timestamp_ns>>

LowerHexDigits == {"0", "1", "2", "3", "4", "5", "6", "7", "8", "9",
                   "a", "b", "c", "d", "e", "f"}

ScenarioDone(n) == ncalls = n /\ Returned(1)

\* C24: in the seed scenarios run in order, S4 returns Ok and leaves the stored
\* soil_moisture at 15 with ambient_temp_c 22, and S5 returns Ok, stores severity
\* CRITICAL and returns one StatusChange, from WARN to CRITICAL.
C24_SeedScenarioOutcomes ==
    /\ ScenarioDone(4) =>
          /\ handlers[1].ret = "Ok"
          /\ \A r \in StateRows("P") :
                r.soil_moisture = Some(15) /\ r.ambient_temp_c = Some(22)
    /\ ScenarioDone(5) =>
          /\ handlers[1].ret = "Ok"
          /\ \A r \in StateRows("P") : r.severity = "CRITICAL"
          /\ \E c \in handlers[1].ret_change :
                c.prev_severity = Warn /\ c.new_severity = Critical

\* what the code does in S4 and S5: S4 stores severity NORMAL and returns the
\* StatusChange from WARN to NORMAL, so that S5 reads NORMAL as the previous severity
C24_SeverityResetByS4 ==
    /\ ScenarioDone(4) =>
          /\ handlers[1].ret = "Ok"
          /\ \A r \in StateRows("P") :
                /\ r.soil_moisture = Some(15) /\ r.ambient_temp_c = Some(22)
                /\ r.severity = "NORMAL"
          /\ \E c \in handlers[1].ret_change :
                c.prev_severity = Warn /\ c.new_severity = Normal
    /\ ScenarioDone(5) =>
          /\ handlers[1].ret = "Ok"
          /\ \A r \in StateRows("P") : r.severity = "CRITICAL"
          /\ \E c \in handlers[1].ret_change :
                c.prev_severity = Normal /\ c.new_severity = Critical

\* C25: the supervisor's sink and influxdb-service make the same line of a point, the
\* field section with its keys escaped included.
C25_SinkEscapesFieldKeys ==
    (IsSome(lp_lines.sink) /\ IsSome(lp_lines.service))
    => lp_lines.sink = lp_lines.service

\* what the code does: the two lines are the same when no field key holds a space, a
\* comma or an equals sign
C25_SameLineForPlainFieldKeys ==
    (/\ IsSome(lp_lines.sink) /\ IsSome(lp_lines.service)
     /\ \A i \in 1..Len(lp_point.fields) :
           escape_lp(lp_point.fields[i][1]) = lp_point.fields[i][1])
    => lp_lines.sink = lp_lines.service

\* the results handle_structured owes for the calls made to the relational backend
ExpectedStructured ==
    [i \in 1..Len(coord.pg_calls) |->
        structured_write_result([table |-> coord.pg_calls[i].table],
                                coord.pg_calls[i].outcome)]

\* C26: POST /data answers 200 only after both writes have run to their end: every
\* record was sent to the relational backend and the points to the time-series
\* backend whatever the other write met, and each part of the response is what its
\* own backend answered; a step of one write leaves the other as it is; a request
\* with neither part is answered 400 and no backend is called.
C26_BothWritesJoined ==
    /\ [](\A resp \in coord.response :
            /\ resp.status = 400
               <=> (coord.req.structured = None /\ coord.req.timeseries = None)
            /\ resp.status = 400
               => (coord.pg_calls = <<>> /\ coord.influx_calls = <<>>)
            /\ resp.status = 200
               => /\ coord.structured.pc = "done" /\ coord.timeseries.pc = "done"
                  /\ resp.structured = coord.structured.value
                  /\ resp.timeseries = coord.timeseries.value
                  /\ \A records \in coord.req.structured :
                        /\ Len(coord.pg_calls) = Len(records)
                        /\ resp.structured = Some(ExpectedStructured)
                  /\ coord.req.structured = None
                        => (resp.structured = None /\ coord.pg_calls = <<>>)
                  /\ \A points \in coord.req.timeseries :
                        /\ Len(coord.influx_calls) = 1
                        /\ resp.timeseries =
                              Some(time_series_write_result(coord.influx_calls[1].outcome))
                  /\ coord.req.timeseries = None
                        => (resp.timeseries = None /\ coord.influx_calls = <<>>))
    /\ [][ coord.pc = "join"
           => /\ coord'.structured # coord.structured
                 => (coord'.timeseries = coord.timeseries
                     /\ coord'.influx_calls = coord.influx_calls)
              /\ coord'.timeseries # coord.timeseries
                 => (coord'.structured = coord.structured
                     /\ coord'.pg_calls = coord.pg_calls) ]_vars

\* the first record met a failed RPC, the second one was still written, and so were
\* the points; the response carries all three results
C26_Witness ==
    \E resp \in coord.response :
        /\ resp.status = 200
        /\ \E results \in resp.structured :
              /\ Len(results) = 2
              /\ ~results[1].success /\ results[2].success
        /\ \E result \in resp.timeseries : result.success
        /\ coord.pg_calls[1].outcome = "rpc_error"

\* the steps 8 to 13 of process_envelope: from the sink write to the final ledger insert
LateSteps == {"sink", "upsert", "device", "ticker", "publish", "ledger_ok"}

\* the process_envelope call of handler h ends in this step without returning Ok: it
\* fails or it is cancelled
StopsShort(h) ==
    /\ InCall(h)
    /\ handlers'[h].pc \in {"idle", "loop"}
    /\ handlers'[h].ret # "Ok"

TickerRows(ingest_id) ==
    { i \in 1..Len(ticker_event) : ticker_event[i].payload.ingest_id = ingest_id }

\* C27: the 'OK' ledger row is written last.  The step that writes it is taken by a
\* run that has upserted plant_current_state, updated the device and inserted the
\* ticker row, so that every 'OK' row in the ledger has its state row and its ticker
\* row; a run that stops between the sink write and the final ledger insert writes
\* no ledger row and leaves none for its ingest_id.
C27_OkLedgerRowWrittenLast ==
    /\ [](\A r \in telemetry_ingest_ledger :
            r.result = "OK"
            => /\ TickerRows(r.ingest_id) # {}
               /\ \A p \in r.plant_id : StateRows(p) # {})
    /\ [][ \A h \in Handlers :
            LET me == handlers[h] IN
            /\ (InCall(h) /\ telemetry_ingest_ledger' # telemetry_ingest_ledger
                          /\ handlers'[h].ret = "Ok")
               => /\ me.pc = "ledger_ok"
                  /\ me.upserted /\ me.device_updated /\ me.ticker_inserted
                  /\ handlers'[h].pc = "loop"
            /\ (StopsShort(h) /\ me.pc \in LateSteps)
               => /\ telemetry_ingest_ledger' = telemetry_ingest_ledger
                  /\ LedgerRows(me.env.ingest_id) = {} ]_vars

\* a run was cancelled after its ticker insert, at the final ledger insert, and left
\* no ledger row; another run wrote an 'OK' row
C27_Witness ==
    \E h \in Handlers :
        LET me == handlers[h] IN
        /\ me.stopped_at = "ledger_ok" /\ me.pc = "idle"
        /\ me.upserted /\ me.ticker_inserted
        /\ LedgerRows(me.env.ingest_id) = {}
        /\ TickerRows(me.env.ingest_id) # {}
        /\ \E r \in telemetry_ingest_ledger : r.result = "OK"

\* a state row but for its updated_at
ExceptUpdatedAt(rows) == { [r EXCEPT !.updated_at = 0] : r \in rows }

\* C28: a run for an active plant that fails or is cancelled before its final ledger
\* insert leaves no ledger row for its ingest_id; a later run on the same envelope
\* finds no ledger row, returns Ok unless it fails itself, and writes the 'OK' row;
\* its upsert leaves the state row that the stopped run had written as it is, but for
\* updated_at (calls run one after another).
C28_ReplayAfterInterruption ==
    /\ [](\A h \in Handlers :
            LET me == handlers[h] IN
            (Returned(h) /\ ValidUuid(me.env) /\ ActivePlant(me.env)
               /\ ~me.seen_before /\ ~me.failed)
            => /\ me.ret = "Ok"
               /\ \E r \in LedgerRows(me.env.ingest_id) : r.result = "OK")
    /\ [][ \A h \in Handlers :
            LET me == handlers[h] IN
            /\ (StopsShort(h) /\ ValidUuid(me.env) /\ ActivePlant(me.env)
                   /\ ~me.seen_before)
               => LedgerRows(me.env.ingest_id) = {}
                  /\ telemetry_ingest_ledger' = telemetry_ingest_ledger
            /\ (Upserts(h) /\ me.rewrite
                   /\ \E r \in StateRows(me.env.plant_id) :
                         r.last_ingest_id = me.env.ingest_id)
               => ExceptUpdatedAt(plant_current_state')
                    = ExceptUpdatedAt(plant_current_state) ]_vars

\* a run was cancelled after its ticker insert; the same envelope was sent again and
\* returned Ok: one state row and one 'OK' ledger row, and two ticker rows
C28_Witness ==
    \E h \in Handlers :
        LET me == handlers[h] IN
        /\ Returned(h) /\ me.ret = "Ok" /\ ~me.seen_before
        /\ me.replay /\ me.rewrite
        /\ me.sev_before # None
        /\ \E r \in StateRows(me.env.plant_id) : r.last_ingest_id = me.env.ingest_id
        /\ Cardinality(LedgerRows(me.env.ingest_id)) = 1
        /\ Cardinality(TickerRows(me.env.ingest_id)) = 2

\* the last process_envelope call of handler h is over, and what it built is known
CallOver(h) == handlers[h].pc \in {"loop", "idle"} /\ handlers[h].ret # ""

\* C29: a StatusChange that process_envelope has built and tried to publish is in the
\* status_changes of the response, and status_changes is the list of the
\* StatusChanges built for the envelopes of the request, in their order.
C29_PublishedChangeInResponse ==
    \A h \in Handlers :
        LET me == handlers[h] IN
        CallOver(h)
        => /\ (amqp_chan /\ IsSome(me.status_change))
              => /\ me.status_changes # <<>>
                 /\ me.status_changes[Len(me.status_changes)] = Unwrap(me.status_change)
           /\ me.status_changes = me.detected

\* what the code does: the StatusChanges of the calls that returned Ok are in the
\* response, in the order of the envelopes; a call whose final ledger insert fails
\* returns Err, and its StatusChange, published or not, is left out
C29_ChangeOfOkCallInResponse ==
    \A h \in Handlers :
        LET me == handlers[h] IN
        CallOver(h)
        => /\ (me.ret = "Ok" /\ IsSome(me.status_change))
              => /\ me.status_changes # <<>>
                 /\ me.status_changes[Len(me.status_changes)] = Unwrap(me.status_change)
           /\ (\A i \in 1..Len(me.results) : me.results[i].result = 0)
              => me.status_changes = me.detected
           /\ Len(me.status_changes) <= Len(me.detected)

\* the case in which C29 fails: the StatusChange was published, the final ledger
\* insert failed, and the response has a result for the envelope but no StatusChange
C29_PublishedButNotReturned ==
    \E h \in Handlers :
        LET me == handlers[h] IN
        /\ CallOver(h) /\ me.ret = "Err" /\ me.ticker_inserted
        /\ IsSome(me.status_change)
        /\ bus # <<>> /\ bus[Len(bus)].occurred_at_ns = me.env.timestamp_ns
        /\ Len(me.results) = 1 /\ me.status_changes = <<>>

\* C30: without a bus channel nothing is published and no publication is attempted;
\* the StatusChange is built from the severities alone, with or without a channel;
\* the publication changes nothing but the bus; and the call returns the StatusChange
\* it built.
C30_NoChannelSameOutcome ==
    /\ [](~amqp_chan => (bus = <<>> /\ \A h \in Handlers : handlers[h].pc # "publish"))
    /\ [][ \A h \in Handlers :
            LET me == handlers[h] IN
            /\ (me.pc = "ticker" /\ handlers'[h].pc \in {"publish", "ledger_ok"})
               => /\ handlers'[h].status_change =
                        status_change_of(me.env, me.prev_severity, me.overall_severity)
                  /\ handlers'[h].pc = "publish"
                        <=> (amqp_chan /\ me.overall_severity # me.prev_severity)
            /\ (me.pc = "publish" /\ handlers'[h] # me)
               => /\ handlers'[h] = [me EXCEPT !.pc = "ledger_ok"]
                  /\ UNCHANGED <<telemetry_ingest_ledger, plant_current_state, device,
                                 ticker_event, sink_points>>
            /\ (me.pc = "ledger_ok" /\ handlers'[h].ret = "Ok")
               => handlers'[h].ret_change = me.status_change ]_vars

\* without a channel a call returned Ok with a StatusChange, after its sink write and
\* its upsert, and nothing is on the bus
C30_Witness ==
    \E h \in Handlers :
        LET me == handlers[h] IN
        /\ ~amqp_chan
        /\ Returned(h) /\ me.ret = "Ok"
        /\ IsSome(me.ret_change)
        /\ me.upserted /\ sink_points # <<>>
        /\ bus = <<>>

\* process_envelope of handler h has passed the sink write (or skipped it)
PastSink(h) ==
    \/ handlers[h].pc \in {"upsert", "device", "ticker", "publish", "ledger_ok"}
    \/ handlers[h].pc = "loop" /\ handlers[h].ret = "Ok"

\* C31: a process_envelope call makes at most one write_points call, and none when
\* the four readings of the envelope are null; a write appends exactly one point to
\* the sink, with the non-null readings as fields and plant_id, device_uid and
\* plant_type_id as tags; a call on an envelope without readings that returns Ok
\* has still upserted the state, inserted the ticker row and written the ledger row.
C31_OneSinkWriteOfPresentReadings ==
    /\ [](\A h \in Handlers :
            LET me == handlers[h] IN
            /\ me.sink_calls <= 1
            /\ PastSink(h)
               => /\ (present_metrics(me.env) = {}) <=> (me.sink_calls = 0)
                  /\ (me.ret = "Ok" /\ present_metrics(me.env) = {})
                     => /\ me.upserted /\ me.ticker_inserted
                        /\ TickerRows(me.env.ingest_id) # {}
                        /\ \E r \in LedgerRows(me.env.ingest_id) : r.result = "OK")
    /\ [][ sink_points' # sink_points
            => \E h \in Handlers :
                  LET me == handlers[h]
                      pt == sink_points'[Len(sink_points')]
                      plant_row == plant_lookup(plant, Unwrap(parse_str(me.env.plant_id)))
                  IN
                  /\ me.pc = "sink" /\ me.sink_calls = 0
                  /\ handlers'[h].sink_calls = 1
                  /\ sink_points' = Append(sink_points, pt)
                  /\ DOMAIN pt.fields = { m \in MetricNames : me.env[m] # None }
                  /\ DOMAIN pt.fields # {}
                  /\ \A m \in DOMAIN pt.fields : me.env[m] = {pt.fields[m]}
                  /\ pt.tags = [plant_id |-> me.env.plant_id,
                                device_uid |-> me.env.device_uid,
                                plant_type_id |-> Unwrap(plant_row).plant_type_id]
                  /\ pt.timestamp_ns = me.env.timestamp_ns ]_vars

\* a call on an envelope without readings returned Ok and wrote no point, and a call
\* on an envelope with all four readings wrote its point
C31_Witness ==
    /\ \E h \in Handlers :
          LET me == handlers[h] IN
          /\ Returned(h) /\ me.ret = "Ok" /\ present_metrics(me.env) = {}
          /\ me.sink_calls = 0 /\ me.upserted /\ me.ticker_inserted
    /\ \E i \in 1..Len(sink_points) :
          DOMAIN sink_points[i].fields = MetricNames

\* C32: with calls running one after another, ticker_event has one row per call that
\* returned Ok and one per call that failed after its ticker insert; a call that
\* returned Duplicate or Error has inserted no row; the row of a call that returned
\* Ok is the last one and carries the envelope's overall severity and ingest_id; and
\* ticker_event changes only by the one row a call appends at its ticker insert.
C32_TickerRowPerAppliedEnvelope ==
    /\ [](LET me == handlers[1] IN
          /\ ~InCall(1)
             => Len(ticker_event) = me.ok_calls + me.late_failures
          /\ (Returned(1) /\ me.ret \in {"Duplicate", "Error"}) => ~me.ticker_inserted
          /\ (Returned(1) /\ me.ret = "Ok")
             => /\ me.ticker_inserted
                /\ ticker_event # <<>>
                /\ LET row == ticker_event[Len(ticker_event)] IN
                   /\ row.payload.ingest_id = me.env.ingest_id
                   /\ row.severity
                        = as_str(aggregate_severity(values(
                             metric_severities_of(me.env,
                                                  threshold_rows(me.plant_type_id))))))
    /\ [][ LET me == handlers[1] IN
            ticker_event' # ticker_event
            => /\ me.pc = "ticker" /\ ~me.ticker_inserted
               /\ handlers'[1].ticker_inserted
               /\ Len(ticker_event') = Len(ticker_event) + 1
               /\ SubSeq(ticker_event', 1, Len(ticker_event)) = ticker_event ]_vars

\* two calls are over: the first failed after its ticker insert, the second returned
\* Ok with a severity above Normal, and ticker_event has two rows
C32_Witness ==
    LET me == handlers[1] IN
    /\ Returned(1) /\ me.ret = "Ok"
    /\ me.ok_calls = 1 /\ me.late_failures = 1
    /\ Len(ticker_event) = 2
    /\ ticker_event[2].severity # "NORMAL"

\* the pre-image of the identifier of a queued envelope
PreimageOf(e) == preimage(e.device_uid, e.plant_id, e.seq, e.timestamp_ns)

\* the character U+0000 occurs in the string
HasNul(str) == \E k \in 1..Len(str) : str[k] = "NUL"

\* C33: two envelopes that differ in device_uid, plant_id, seq or timestamp_ns never
\* have the same pre-image (the byte sequence fed to the hasher).
C33_PreimageInjective ==
    \A i, j \in 1..Len(rx_queue) :
        IdentifyingFields(rx_queue[i]) # IdentifyingFields(rx_queue[j])
        => PreimageOf(rx_queue[i]) # PreimageOf(rx_queue[j])

\* what the code does: the pre-images of envelopes whose device_uid and plant_id hold
\* no U+0000 differ when the four fields differ (the zero bytes end the two strings,
\* and the two integers have fixed widths)
C33_InjectiveWithoutNul ==
    \A i, j \in 1..Len(rx_queue) :
        /\ IdentifyingFields(rx_queue[i]) # IdentifyingFields(rx_queue[j])
        /\ \A e \in {rx_queue[i], rx_queue[j]} :
              ~HasNul(e.device_uid) /\ ~HasNul(e.plant_id)
        => PreimageOf(rx_queue[i]) # PreimageOf(rx_queue[j])

\* the case in which C33 fails: two queued envelopes with different device_uid and
\* plant_id, the same pre-image and the same identifier
C33_SamePreimage ==
    \E i, j \in 1..Len(rx_queue) :
        /\ rx_queue[i].device_uid # rx_queue[j].device_uid
        /\ rx_queue[i].plant_id # rx_queue[j].plant_id
        /\ PreimageOf(rx_queue[i]) = PreimageOf(rx_queue[j])
        /\ rx_queue[i].ingest_id = rx_queue[j].ingest_id

\* the points of the write_points calls among the first k calls that returned, after
\* the last drain among them, in the order in which the calls returned
RECURSIVE SinceLastDrain(_)
SinceLastDrain(k) ==
    IF k = 0 THEN <<>>
    ELSE IF fake.log[k].op = "drain" THEN <<>>
    ELSE IF fake.log[k].op = "write_points"
         THEN SinceLastDrain(k - 1) \o fake.log[k].value
         ELSE SinceLastDrain(k - 1)

\* the values of the calls of one kind among the first k calls that returned, joined
RECURSIVE Returned_by(_, _)
Returned_by(op, k) ==
    IF k = 0 THEN <<>>
    ELSE IF fake.log[k].op = op THEN Returned_by(op, k - 1) \o fake.log[k].value
    ELSE Returned_by(op, k - 1)

\* C34: whatever the interleaving of the callers, a snapshot and a drain return the
\* points written since the last drain, in write order and with the points of each
\* write_points call together; a snapshot leaves the buffer as it is and a drain leaves
\* it empty; the points returned by the drains, followed by the buffer, are the points
\* written, each of them once.
C34_MemorySinkLinearizable ==
    /\ [](/\ \A k \in 1..Len(fake.log) :
                fake.log[k].op \in {"snapshot", "drain"}
                => fake.log[k].value = SinceLastDrain(k - 1)
          /\ fake.mutex = None
             => /\ fake.points = SinceLastDrain(Len(fake.log))
                /\ Returned_by("drain", Len(fake.log)) \o fake.points
                     = Returned_by("write_points", Len(fake.log))
          /\ LET all == Returned_by("drain", Len(fake.log)) \o fake.points IN
             \A i, j \in 1..Len(all) : all[i] = all[j] => i = j)
    /\ [][ \A c \in SinkCallers :
            (fake.callers[c].pc = "locked" /\ fake'.callers[c].pc = "idle")
            => /\ fake.callers[c].op = "snapshot" => fake'.points = fake.points
               /\ fake.callers[c].op = "drain" => fake'.points = <<>> ]_vars

\* two write_points calls of two points each were made by different callers; a
\* snapshot returned the four points and the buffer stayed as it was
C34_Witness ==
    /\ Len(fake.log) = 3
    /\ fake.log[1].op = "write_points" /\ fake.log[2].op = "write_points"
    /\ fake.log[1].by # fake.log[2].by
    /\ fake.log[3].op = "snapshot"
    /\ Len(fake.log[3].value) = 4
    /\ fake.points = fake.log[3].value

\* two drains returned points: no point is in both
C34_TwoDrains ==
    /\ Len(fake.log) = 4
    /\ fake.log[2].op = "drain" /\ fake.log[2].value # <<>>
    /\ fake.log[4].op = "drain" /\ fake.log[4].value # <<>>

StoredBeforeUpsert(h) ==
    IF handlers[h].sev_before = None THEN Normal
    ELSE from_str(Unwrap(handlers[h].sev_before))

\* the changes recorded in a list of (plant, ...) entries for one plant
ForPlant(list, plant_id) == SelectSeq(list, LAMBDA t : t[1] = plant_id)

\* C36: with handlers running concurrently on different envelopes of one plant, the
\* prev_severity of every StatusChange returned is the severity that was stored just
\* before the upsert of its envelope took effect, and once all calls are over (none
\* having failed) the plant has as many StatusChanges as changes of its stored
\* severity.
C36_PrevIsStoredBeforeUpsert ==
    /\ \A h \in Handlers :
          LET me == handlers[h] IN
          (Returned(h) /\ me.ret = "Ok")
          => \A c \in me.ret_change : c.prev_severity = StoredBeforeUpsert(h)
    /\ ((\A h \in Handlers : ~InCall(h)) /\ sql_errors = 0)
       => \A p \in Uuids :
             Len(ForPlant(EmittedTransitions, p)) = Len(ForPlant(severity_log, p))

\* what the code does: the prev_severity of a StatusChange is the severity the call
\* read with its SELECT, which is the severity stored before its upsert when no other
\* upsert of the plant came in between
C36_PrevIsSeverityRead ==
    \A h \in Handlers :
        LET me == handlers[h] IN
        (Returned(h) /\ me.ret = "Ok")
        => /\ \A c \in me.ret_change : c.prev_severity = PreviousRead(h)
           /\ me.read_severity = me.sev_before
              => \A c \in me.ret_change : c.prev_severity = StoredBeforeUpsert(h)

\* the case in which C36 fails: a handler read the previous severity, another
\* handler's upsert changed it, and the first returned a StatusChange whose
\* prev_severity is not the severity its own upsert replaced
C36_StalePrevious ==
    \E h \in Handlers :
        LET me == handlers[h] IN
        /\ Returned(h) /\ me.ret = "Ok"
        /\ me.read_severity # me.sev_before
        /\ \E c \in me.ret_change : c.prev_severity # StoredBeforeUpsert(h)

\* the threshold rows of a plant type for a metric
ThresholdsFor(plant_type_id, metric) ==
    { plant_type_metric_threshold[i] : i \in
        { k \in 1..Len(plant_type_metric_threshold) :
            /\ plant_type_metric_threshold[k].plant_type_id = plant_type_id
            /\ plant_type_metric_threshold[k].metric = metric } }

\* the severity of a value of a metric for a plant type: Normal without a threshold row
SeverityOfReading(plant_type_id, metric, value) ==
    LET rows == ThresholdsFor(plant_type_id, metric) IN
    IF rows = {} THEN Normal ELSE SpecifiedSeverity(value, CHOOSE t \in rows : TRUE)

\* the overall severity of the readings present in an envelope
SeverityOfEnvelope(plant_type_id, env) ==
    MaxSeverity({ SeverityOfReading(plant_type_id, m, Unwrap(env[m])) :
                    m \in { n \in MetricNames : env[n] # None } })

\* C37: the upsert of an envelope stores a metric_severity that holds exactly the
\* metrics present in the envelope, each with the severity of its reading (Normal
\* without a threshold row), and a severity that is the greatest of them (Normal if
\* there is none), whatever the row held before; a stored reading that the envelope
\* omits stays stored, even when it breaches a bound, and does not count.
C37_SeverityFromEnvelopeAlone ==
    [][ \A h \in Handlers :
          Upserts(h) =>
            LET me == handlers[h]
                env == me.env
                old == StateRows(env.plant_id)
                type == (CHOOSE p \in plant : p.id = env.plant_id).plant_type_id
            IN
            \E r \in plant_current_state' :
                /\ r.plant_id = env.plant_id
                /\ DOMAIN r.metric_severity = { m \in MetricNames : env[m] # None }
                /\ \A m \in DOMAIN r.metric_severity :
                      r.metric_severity[m]
                        = as_str(SeverityOfReading(type, m, Unwrap(env[m])))
                /\ r.severity = as_str(SeverityOfEnvelope(type, env))
                /\ \A o \in old : \A m \in MetricNames :
                      (env[m] = None /\ o[m] # None
                         /\ SeverityOfReading(type, m, Unwrap(o[m])) # Normal)
                      => r[m] = o[m] ]_vars

\* an envelope without soil_moisture was applied over a stored soil_moisture that
\* breaches a bound: the value is still stored, the severity is NORMAL and
\* metric_severity has no entry for soil_moisture
C37_Witness ==
    \E h \in Handlers :
        LET me == handlers[h] IN
        /\ Returned(h) /\ me.ret = "Ok"
        /\ me.env.soil_moisture = None /\ me.env.ambient_temp_c # None
        /\ me.sev_before \in {Some("WARN"), Some("CRITICAL")}
        /\ \E r \in StateRows(me.env.plant_id) :
              /\ r.soil_moisture # None
              /\ SeverityOfReading("T", "soil_moisture", Unwrap(r.soil_moisture)) # Normal
              /\ r.severity = "NORMAL"
              /\ DOMAIN r.metric_severity = {"ambient_temp_c"}

\* the ledger holds an 'ERROR' row for the ingest_id of the envelope of handler h, and
\* held it when the call started
RejectedBefore(h) ==
    /\ handlers[h].seen_before
    /\ \E r \in LedgerRows(handlers[h].env.ingest_id) : r.result = "ERROR"

\* C38 as stated: once an envelope was rejected for an unknown or inactive plant,
\* every later call on an envelope with its ingest_id returns Duplicate and changes
\* no state row, ticker row, ledger row, sink point or bus message, whether or not
\* the plant has become active (calls run one after another).
C38_RejectedStaysDuplicate ==
    [][ \A h \in Handlers :
          (InCall(h) /\ RejectedBefore(h))
          => /\ WritesNothingButLastSeen
             /\ Returns(h) => /\ handlers'[h].ret = "Duplicate"
                              /\ handlers'[h].ret_change = None ]_vars

\* C38 as amended: such a call changes nothing but device.last_seen_at, whether or
\* not the plant has become active, and it returns Duplicate without a StatusChange
\* when its plant_id parses as a UUID and its ledger probe succeeds.
C38_RejectedNeverApplied ==
    [][ \A h \in Handlers :
          (InCall(h) /\ RejectedBefore(h))
          => /\ WritesNothingButLastSeen
             /\ (Returns(h) /\ ValidUuid(handlers[h].env) /\ ~handlers'[h].failed)
                => /\ handlers'[h].ret = "Duplicate"
                   /\ handlers'[h].ret_change = None ]_vars

\* an envelope was rejected while its plant was not active, the plant became active,
\* and the envelope sent again returned Duplicate: the plant has no state row
C38_Witness ==
    LET me == handlers[1] IN
    /\ Returned(1) /\ me.ret = "Duplicate"
    /\ me.env.plant_id \in {"Q", "R"}
    /\ ActivePlant(me.env)
    /\ \A r \in LedgerRows(me.env.ingest_id) : r.result = "ERROR"
    /\ StateRows(me.env.plant_id) = {}
    /\ ticker_event = <<>>

\* C39: the envelopes taken from the queue are, in the order they were taken, the
\* envelopes of the batches handed to the forwarding RPC, followed by the buffer or,
\* once batch_sender has returned, by the buffer it dropped: each is in one batch,
\* each batch was handed to one RPC, and only the buffer held when the closed queue
\* was observed is never sent; that buffer is not full; an envelope is taken from the
\* head of the queue.
C39_TakenEnvelopesBatchedInOrder ==
    /\ [](/\ batcher.taken
                = Flatten(forwarded) \o batcher.batch \o batcher.discarded
          /\ batcher.pc # "returned" => batcher.discarded = <<>>
          /\ batcher.pc = "returned"
             => /\ batcher.batch = <<>>
                /\ batcher.batch_size >= 1
                   => Len(batcher.discarded) < batcher.batch_size)
    /\ [][ /\ batcher'.taken # batcher.taken
              => /\ rx_queue # <<>>
                 /\ batcher'.taken = Append(batcher.taken, Head(rx_queue))
                 /\ rx_queue' = Tail(rx_queue)
           /\ batcher'.discarded # batcher.discarded
              => /\ recv_closed(rx_queue, receiver.tx)
                 /\ batcher'.discarded = batcher.batch
                 /\ forwarded' = forwarded ]_vars

\* three envelopes were taken from the queue: two were sent as one batch, and the
\* third was in the buffer when the queue was found closed
C39_Witness ==
    /\ batcher.pc = "returned"
    /\ Len(batcher.taken) = 3
    /\ Len(forwarded) = 1 /\ Len(forwarded[1]) = 2
    /\ batcher.discarded = <<batcher.taken[3]>>
    /\ batcher.taken[1] # batcher.taken[2]

\* a valid datagram is handled in this step
HandlesValid ==
    /\ receiver'.last # receiver.last \/ Received' # Received
    /\ Received' = Received + 1
    /\ receiver'.last[2] \in {"enqueued", "dropped"}

\* C40: a request is in flight exactly while the batcher awaits its RPC, and it is the
\* batch handed over last; while the RPC is pending the batcher takes nothing from the
\* queue and hands over no other batch, so a batch is handed over only when no RPC is
\* pending, and the batches handed over are the envelopes taken so far, in the order
\* they were taken from the head of the queue; a valid datagram that arrives while
\* the RPC is pending is appended to the queue, or dropped when 1024 are waiting.
C40_OneRpcInFlight ==
    /\ [](/\ batcher.in_flight # <<>> <=> batcher.pc = "rpc"
          /\ batcher.pc = "rpc" => batcher.in_flight = forwarded[Len(forwarded)])
    /\ [][ /\ batcher.pc = "rpc"
              => /\ batcher'.taken = batcher.taken
                 /\ forwarded' = forwarded
                 /\ \/ rx_queue' = rx_queue
                    \/ rx_queue' = Append(rx_queue, rx_queue'[Len(rx_queue')])
           /\ forwarded' # forwarded
              => /\ batcher.pc = "recv" /\ batcher.in_flight = <<>>
                 /\ Len(forwarded') = Len(forwarded) + 1
                 /\ Flatten(forwarded') = batcher'.taken
           /\ batcher'.taken # batcher.taken
              => /\ batcher'.taken = Append(batcher.taken, Head(rx_queue))
                 /\ rx_queue' = Tail(rx_queue)
           /\ (batcher.pc = "rpc" /\ HandlesValid)
              => IF Len(rx_queue) < 1024
                 THEN /\ Len(rx_queue') = Len(rx_queue) + 1
                      /\ receiver'.last[2] = "enqueued"
                      /\ receiver'.dropped = receiver.dropped
                 ELSE /\ rx_queue' = rx_queue
                      /\ receiver'.last[2] = "dropped"
                      /\ receiver'.dropped = receiver.dropped + 1 ]_vars

\* the first batch, of two envelopes, is in flight; 1024 envelopes that arrived since
\* wait in the queue, and the datagram that came last was dropped
C40_Witness ==
    /\ batcher.pc = "rpc"
    /\ Len(forwarded) = 1 /\ Len(forwarded[1]) = 2
    /\ forwarded[1][1] # forwarded[1][2]
    /\ Len(rx_queue) = QueueCapacity
    /\ receiver.enqueued = QueueCapacity + 2
    /\ receiver.dropped >= 1
    /\ receiver.last[2] = "dropped"

====
